---- MODULE Spec2Model ----
(***************************************************************************)
(* JWT authentication subsystem of the async REST API: the Token Manager   *)
(* (JWTManager.create_access_token / decode_token), the Authentication     *)
(* Gate (get_current_user behind HTTPBearer), the user store it reads and  *)
(* the exception handlers that turn failures into HTTP responses.          *)
(*                                                                         *)
(* Time is counted in ticks, TicksPerSecond ticks to the second: the       *)
(* process clock (datetime.now(UTC)) has sub-second resolution, the exp    *)
(* and iat claims of a token are whole seconds (NumericDate).              *)
(***************************************************************************)
EXTENDS Integers, Sequences, FiniteSets, TLC

VARIABLES
    now,        \* the process clock, in ticks
    keyfiles,   \* the key files and passphrase the Token Manager loads from
    users,      \* the users table: id -> row
    nextId,     \* the users table's autoincrement counter
    issued,     \* the token create_access_token returned last, with its arguments
    response,   \* what the last operation returned or raised
    firstManager, \* the first JWTManager this process constructed (history)
    todos,      \* the todos table: id -> row
    nextTodoId, \* the todos table's autoincrement counter
    reqs,       \* the requests in flight: where each handler stands
    dbNow       \* the database server's clock (func.now()), in ticks

vars == <<now, keyfiles, users, nextId, issued, response,
          firstManager, todos, nextTodoId, reqs, dbNow>>

----------------------------------------------------------------------------
(* Bounds of the model *)

TicksPerSecond == 2
MaxTime == 4
MaxUsers == 2
MaxTodos == 2
MaxTail == 2
MaxReqs == 2
MaxDbTime == 2

(* Program constants *)

DefaultExpireMinutes == 15
HTTP_401 == 401
HTTP_500 == 500
MinPasswordLength == 8
MaxPasswordLength == 100
MaxPageSize == 100
HTTP_422 == 422
LoginExpireHours == 24

----------------------------------------------------------------------------
(* Strings that the code converts are sequences of characters. *)

Digit == {"0", "1", "2", "3", "4", "5", "6", "7", "8", "9"}

DigitValue(c) ==
    CASE c = "0" -> 0 [] c = "1" -> 1 [] c = "2" -> 2 [] c = "3" -> 3
      [] c = "4" -> 4 [] c = "5" -> 5 [] c = "6" -> 6 [] c = "7" -> 7
      [] c = "8" -> 8 [] c = "9" -> 9

DigitChar(d) ==
    CASE d = 0 -> "0" [] d = 1 -> "1" [] d = 2 -> "2" [] d = 3 -> "3"
      [] d = 4 -> "4" [] d = 5 -> "5" [] d = 6 -> "6" [] d = 7 -> "7"
      [] d = 8 -> "8" [] d = 9 -> "9"

\* str(n) of a non-negative int: its decimal digits.
RECURSIVE PyStr(_)
PyStr(n) == IF n < 10 THEN <<DigitChar(n)>>
            ELSE Append(PyStr(n \div 10), DigitChar(n % 10))

\* int(s) raises ValueError unless s is a decimal literal.
IntParses(s) == Len(s) > 0 /\ \A i \in 1..Len(s) : s[i] \in Digit

RECURSIVE PyInt(_)
PyInt(s) == IF Len(s) = 0 THEN 0
            ELSE 10 * PyInt(SubSeq(s, 1, Len(s) - 1)) + DigitValue(s[Len(s)])

----------------------------------------------------------------------------
(* Token Manager: src/api/core/security.py *)

\* Two RSA key pairs: the one in the deployment's key files and another one.
KeyPairs == {"k1", "k2"}

\* What a deployment gives the Token Manager: the private and the public key
\* file (the key pair in it, or "missing"), the passphrase in the settings
\* (jwt_private_key_password) and the one in the environment
\* (JWT_PRIVATE_KEY_PASSWORD): "none", "right" or "wrong".
HealthyKeyFiles == [private |-> "k1", public |-> "k1", password |-> "right", env |-> "none"]

\* The deployments: the healthy one, and one for each way the keys fail to load.
KeyFileStates ==
    { HealthyKeyFiles,
      [HealthyKeyFiles EXCEPT !.private = "missing"],
      [HealthyKeyFiles EXCEPT !.public = "missing"],
      [HealthyKeyFiles EXCEPT !.password = "none"],
      [HealthyKeyFiles EXCEPT !.password = "wrong"] }

\* What a key file can be: absent, present but not readable by the process,
\* present with data that is no PEM key, or the PEM of a key pair.
KeyFileContents == {"missing", "unreadable", "corrupt"} \cup KeyPairs

\* The result of a loader: the exception raised ("" when it returned), its
\* message, and the key material returned.
Loaded(key) == [error |-> "", message |-> "", key |-> key]
LoadFailed(error, message) == [error |-> error, message |-> message, key |-> "none"]

\* JWTManager._load_key: FileNotFoundError unless path.exists(); then
\* path.read_bytes(), which raises PermissionError on a file the process may
\* not read and returns the bytes, unparsed, otherwise.
LoadKey(file) ==
    IF file = "missing" THEN LoadFailed("FileNotFoundError", "Key file not found")
    ELSE IF file = "unreadable" THEN LoadFailed("PermissionError", "Permission denied")
    ELSE Loaded(file)

\* Mutant: the environment variable is not consulted.
LoadPrivateKeyNoEnv(file, password, env) ==
    IF file = "missing" THEN LoadFailed("FileNotFoundError", "Private key file not found")
    ELSE IF password = "none"
        THEN LoadFailed("ValueError", "JWT_PRIVATE_KEY_PASSWORD environment variable is required")
    ELSE IF file = "unreadable" THEN LoadFailed("PermissionError", "Permission denied")
    ELSE IF file = "corrupt" \/ password # "right"
        THEN LoadFailed("ValueError", "Failed to decrypt private key")
    ELSE Loaded(file)

\* JWTManager._load_private_key: FileNotFoundError unless path.exists(); the
\* passphrase is the argument or, when that is None, JWT_PRIVATE_KEY_PASSWORD,
\* ValueError when both are absent; then path.read_bytes(); then
\* load_pem_private_key, whose ValueError (wrong passphrase, data that is no
\* key) is raised again as ValueError("Failed to decrypt private key ...").
LoadPrivateKey(file, password, env) ==
    LET passphrase == IF password = "none" THEN env ELSE password
    IN  IF file = "missing" THEN LoadFailed("FileNotFoundError", "Private key file not found")
        ELSE IF passphrase = "none"
            THEN LoadFailed("ValueError", "JWT_PRIVATE_KEY_PASSWORD environment variable is required")
        ELSE IF file = "unreadable" THEN LoadFailed("PermissionError", "Permission denied")
        ELSE IF file = "corrupt" \/ passphrase # "right"
            THEN LoadFailed("ValueError", "Failed to decrypt private key")
        ELSE Loaded(file)

\* JWTManager.__init__: the private key first, then the public key.
JWTManagerInit(kf) ==
    LET priv == LoadPrivateKey(kf.private, kf.password, kf.env)
        pub  == LoadKey(kf.public)
    IN  IF priv.error # ""
            THEN [error |-> priv.error, message |-> priv.message,
                  private_key |-> "none", public_key |-> "none"]
        ELSE IF pub.error # ""
            THEN [error |-> pub.error, message |-> pub.message,
                  private_key |-> "none", public_key |-> "none"]
        ELSE [error |-> "", message |-> "", private_key |-> priv.key, public_key |-> pub.key]

\* get_jwt_manager: a new JWTManager from the settings' paths on every call.
GetJwtManager == JWTManagerInit(keyfiles)

\* No JWTManager: what firstManager holds before one was constructed, and what
\* an operation that calls no get_jwt_manager reports as constructed.
NoManager == [error |-> "unbuilt", message |-> "", private_key |-> "none", public_key |-> "none"]

\* The history of constructions after get_jwt_manager returned jwt_manager.
FirstManagerAfter(jwt_manager) ==
    IF firstManager = NoManager /\ jwt_manager.error = "" THEN jwt_manager ELSE firstManager

\* timedelta(minutes=15), in ticks.
DefaultExpireTicks == DefaultExpireMinutes * 60 * TicksPerSecond

\* An optional timedelta is <<>> (None) or <<d>>, d in ticks; a timedelta is
\* truthy unless it is timedelta(0).
NoDelta == <<>>
Delta(d) == <<d>>
Truthy(expires_delta) == Len(expires_delta) = 1 /\ expires_delta[1] # 0

\* jwt.encode writes a datetime claim as whole seconds since the epoch
\* (timegm of its utctimetuple): the sub-second part is dropped.
NumericDate(ticks) == ticks \div TicksPerSecond

\* Mutant: the expiry is the timedelta alone, the clock is not added.
CreateAccessTokenExpireNoClock(expires_delta, clock) ==
    IF Truthy(expires_delta) THEN expires_delta[1]
    ELSE DefaultExpireTicks

\* JWTManager.create_access_token.
CreateAccessTokenExpire(expires_delta, clock) ==
    IF Truthy(expires_delta) THEN clock + expires_delta[1]
    ELSE clock + DefaultExpireTicks

CreateAccessToken(manager, subject, expires_delta, clock) ==
    LET expire == CreateAccessTokenExpire(expires_delta, clock)
    IN  [wf |-> TRUE, key |-> manager.private_key,
         payload |-> [exp |-> NumericDate(expire), iat |-> NumericDate(clock), sub |-> subject]]

\* What a failed decode carries instead of a payload.
NoPayload == [raised |-> TRUE]

\* Mutant: a token is still accepted at the very second of its expiry.
JwtDecodeLateExpiry(token, public_key, clock) ==
    IF ~token.wf THEN [raised |-> "DecodeError", payload |-> NoPayload]
    ELSE IF token.key # public_key THEN [raised |-> "InvalidSignatureError", payload |-> NoPayload]
    ELSE IF "iat" \in DOMAIN token.payload /\ token.payload.iat * TicksPerSecond > clock
        THEN [raised |-> "ImmatureSignatureError", payload |-> NoPayload]
    ELSE IF "exp" \in DOMAIN token.payload /\ token.payload.exp * TicksPerSecond < clock
        THEN [raised |-> "ExpiredSignatureError", payload |-> NoPayload]
    ELSE [raised |-> "", payload |-> token.payload]

\* Mutant: the expiry is checked before the signature.
JwtDecodeExpFirst(token, public_key, clock) ==
    IF ~token.wf THEN [raised |-> "DecodeError", payload |-> NoPayload]
    ELSE IF "exp" \in DOMAIN token.payload /\ token.payload.exp * TicksPerSecond <= clock
        THEN [raised |-> "ExpiredSignatureError", payload |-> NoPayload]
    ELSE IF token.key # public_key THEN [raised |-> "InvalidSignatureError", payload |-> NoPayload]
    ELSE IF "iat" \in DOMAIN token.payload /\ token.payload.iat * TicksPerSecond > clock
        THEN [raised |-> "ImmatureSignatureError", payload |-> NoPayload]
    ELSE [raised |-> "", payload |-> token.payload]

\* Mutant: the sub claim is required (options={"require": ["sub"]}).
JwtDecodeRequireSub(token, public_key, clock) ==
    IF ~token.wf THEN [raised |-> "DecodeError", payload |-> NoPayload]
    ELSE IF token.key # public_key THEN [raised |-> "InvalidSignatureError", payload |-> NoPayload]
    ELSE IF "sub" \notin DOMAIN token.payload
        THEN [raised |-> "DecodeError", payload |-> NoPayload]
    ELSE IF "iat" \in DOMAIN token.payload /\ token.payload.iat * TicksPerSecond > clock
        THEN [raised |-> "ImmatureSignatureError", payload |-> NoPayload]
    ELSE IF "exp" \in DOMAIN token.payload /\ token.payload.exp * TicksPerSecond <= clock
        THEN [raised |-> "ExpiredSignatureError", payload |-> NoPayload]
    ELSE [raised |-> "", payload |-> token.payload]

\* jwt.decode(token, public_key, algorithms=["RS256"]): the structure, then
\* the signature, then the registered claims iat and exp against the clock.
\* No claim is required. The result is the payload or the exception raised.
JwtDecode(token, public_key, clock) ==
    IF ~token.wf THEN [raised |-> "DecodeError", payload |-> NoPayload]
    ELSE IF token.key # public_key THEN [raised |-> "InvalidSignatureError", payload |-> NoPayload]
    ELSE IF "iat" \in DOMAIN token.payload /\ token.payload.iat * TicksPerSecond > clock
        THEN [raised |-> "ImmatureSignatureError", payload |-> NoPayload]
    ELSE IF "exp" \in DOMAIN token.payload /\ token.payload.exp * TicksPerSecond <= clock
        THEN [raised |-> "ExpiredSignatureError", payload |-> NoPayload]
    ELSE [raised |-> "", payload |-> token.payload]

\* Mutant: a token is revoked with its user: decode_token consults the users
\* table and rejects a token whose subject has no row or an inactive one.
DecodeTokenRevoking(manager, token, clock) ==
    LET decoded == JwtDecode(token, manager.public_key, clock)
        sub == decoded.payload.sub
    IN  IF decoded.raised = "" /\ "sub" \in DOMAIN decoded.payload /\ IntParses(sub)
           /\ (PyInt(sub) \notin DOMAIN users \/ ~users[PyInt(sub)].is_active)
        THEN [raised |-> "InvalidSignatureError", payload |-> NoPayload]
        ELSE decoded

\* JWTManager.decode_token.
DecodeToken(manager, token, clock) == JwtDecode(token, manager.public_key, clock)

\* Mutant: the first except clause catches every token error.
IsAnyTokenError(e) == e # ""

\* The except clauses of get_current_user: jwt.ExpiredSignatureError first,
\* then jwt.InvalidTokenError, the base class of every PyJWT token error.
IsExpiredSignatureError(e) == e = "ExpiredSignatureError"
IsInvalidTokenError(e) ==
    e \in {"DecodeError", "InvalidSignatureError", "ImmatureSignatureError", "ExpiredSignatureError"}

----------------------------------------------------------------------------
(* Password Hasher: src/api/core/security.py *)

BcryptLimit == 72

\* A character is the tuple of the bytes of its UTF-8 encoding, a str is a
\* sequence of characters: "a", "b", e-acute, the euro sign, hiragana a.
CharA == <<97>>
CharB == <<98>>
CharEAcute == <<195, 169>>
CharEuro == <<226, 130, 172>>
CharHiraganaA == <<227, 129, 130>>

\* s.encode("utf-8"): the bytes of the characters, one after the other.
RECURSIVE Utf8Encode(_)
Utf8Encode(str) ==
    IF str = <<>> THEN <<>> ELSE Head(str) \o Utf8Encode(Tail(str))

\* The length of the sequence a lead byte announces, 0 for a byte that is no
\* lead byte.
Utf8Width(byte) ==
    IF byte < 128 THEN 1
    ELSE IF byte >= 192 /\ byte < 224 THEN 2
    ELSE IF byte >= 224 /\ byte < 240 THEN 3
    ELSE IF byte >= 240 /\ byte < 248 THEN 4
    ELSE 0

\* bytes.decode("utf-8", errors="ignore"): the characters of the complete
\* sequences; bytes that form no complete sequence are dropped.
RECURSIVE Utf8DecodeIgnore(_)
Utf8DecodeIgnore(bytes) ==
    IF bytes = <<>> THEN <<>>
    ELSE LET w == Utf8Width(bytes[1])
         IN  IF w = 0 \/ Len(bytes) < w THEN Utf8DecodeIgnore(Tail(bytes))
             ELSE <<SubSeq(bytes, 1, w)>> \o Utf8DecodeIgnore(SubSeq(bytes, w + 1, Len(bytes)))

\* bytes[:n]
Slice(bytes, n) == SubSeq(bytes, 1, IF Len(bytes) < n THEN Len(bytes) ELSE n)

\* password.encode("utf-8")[:72].decode("utf-8", errors="ignore")
Truncate(password) == Utf8DecodeIgnore(Slice(Utf8Encode(password), BcryptLimit))

\* pwd_context.hash(secret): a bcrypt hash string, which holds the salt and
\* the digest of the secret's bytes under that salt.
PwdContextHash(secret, salt) ==
    [scheme |-> "bcrypt", salt |-> salt, secret |-> Utf8Encode(secret)]

\* hash_password: a salted bcrypt hash of the truncated password.
HashPassword(password, salt) == PwdContextHash(Truncate(password), salt)

\* Stored strings that are no hash: one no scheme of the context identifies,
\* and one that starts like a bcrypt hash but is cut short.
UnidentifiedHash == [scheme |-> "unknown"]
CutBcryptHash == [scheme |-> "bcrypt_malformed"]

\* pwd_context.verify(secret, hash): the context identifies the scheme of the
\* hash and raises UnknownHashError when no scheme matches; the bcrypt
\* handler parses the hash and raises ValueError when it is malformed; else
\* the secret is hashed with the salt in the hash and the digests compared.
PwdContextVerify(secret, hash) ==
    IF hash.scheme = "unknown" THEN [raised |-> "UnknownHashError", value |-> FALSE]
    ELSE IF hash.scheme # "bcrypt" THEN [raised |-> "ValueError", value |-> FALSE]
    ELSE [raised |-> "", value |-> (Utf8Encode(secret) = hash.secret)]

\* Mutant: the password is verified as it is, without the truncation.
VerifyPasswordNoTruncate(plain_password, hashed_password) ==
    PwdContextVerify(plain_password, hashed_password)

\* verify_password
VerifyPassword(plain_password, hashed_password) ==
    PwdContextVerify(Truncate(plain_password), hashed_password)

----------------------------------------------------------------------------
(* Error responses: src/api/middleware/error_handler.py, src/api/core/exceptions.py *)

\* The exception classes of core/exceptions.py used here.
UnauthorizedError(message) == [status_code |-> HTTP_401, message |-> message]
NotFoundError(message) == [status_code |-> 404, message |-> message]
ConflictError(message) == [status_code |-> 409, message |-> message]

\* create_error_response.
CreateErrorResponse(status_code, message) ==
    [shape |-> "error", status_code |-> status_code, message |-> message,
     type |-> IF 400 <= status_code /\ status_code < 500 THEN "client_error" ELSE "server_error"]

\* app_exception_handler: the exception's own status code and message.
AppExceptionHandler(exc) ==
    [status |-> exc.status_code, body |-> CreateErrorResponse(exc.status_code, exc.message)]

\* sqlalchemy_exception_handler.
SqlalchemyExceptionHandler ==
    [status |-> HTTP_500, body |-> CreateErrorResponse(HTTP_500, "Database error occurred")]

\* validation_exception_handler.
ValidationExceptionHandler ==
    [status |-> HTTP_422, body |-> CreateErrorResponse(HTTP_422, "Request validation failed")]

\* generic_exception_handler.
GenericExceptionHandler ==
    [status |-> HTTP_500, body |-> CreateErrorResponse(HTTP_500, "An unexpected error occurred")]

\* No handler is registered for HTTPException (main.py registers AppException,
\* RequestValidationError, SQLAlchemyError and Exception), so the framework's
\* own handler answers it: the exception's status and a body {"detail": ...}.
HttpExceptionResponse(status_code, detail) ==
    [status |-> status_code, body |-> [shape |-> "detail", detail |-> detail]]

----------------------------------------------------------------------------
(* Authentication Gate: src/api/core/auth.py *)

\* select(User).where(User.id == n), scalar_one_or_none(): <<row>> or <<>>.
UserByIdAny(n) == IF DOMAIN users # {} THEN <<users[CHOOSE i \in DOMAIN users : TRUE]>> ELSE <<>>
UserById(n) == IF n \in DOMAIN users THEN <<users[n]>> ELSE <<>>

\* What get_current_user did: the exception it raised ("" when it returned),
\* the user it returned, the warnings it logged, and whether it called
\* decode_token and the database.
GateResult(raised, message, user, logged, decoded, lookup) ==
    [raised |-> raised, message |-> message, user |-> user, logged |-> logged,
     decoded |-> decoded, lookup |-> lookup]

\* get_current_user(credentials, db); db_up says whether db.execute succeeds.
GetCurrentUser(token, db_up) ==
    LET jwt_manager == GetJwtManager
        decoded == DecodeToken(jwt_manager, token, now)
        payload == decoded.payload
        has_sub == "sub" \in DOMAIN payload
        found   == UserById(PyInt(payload.sub))
    IN  IF jwt_manager.error # ""
            THEN GateResult(jwt_manager.error, "", <<>>, {}, FALSE, "none")
        ELSE IF IsExpiredSignatureError(decoded.raised)
            THEN GateResult("UnauthorizedError", "Token has expired", <<>>,
                            {"expired_token_attempt"}, TRUE, "none")
        ELSE IF IsInvalidTokenError(decoded.raised)
            THEN GateResult("UnauthorizedError", "Invalid authentication token", <<>>,
                            {"invalid_token_attempt"}, TRUE, "none")
        ELSE IF ~has_sub
            THEN GateResult("UnauthorizedError", "Invalid authentication token", <<>>,
                            {}, TRUE, "none")
        ELSE IF ~IntParses(payload.sub)
            THEN GateResult("ValueError", "", <<>>, {}, TRUE, "none")
        ELSE IF ~db_up
            THEN GateResult("SQLAlchemyError", "", <<>>, {}, TRUE, "failed")
        ELSE IF found = <<>>
            THEN GateResult("UnauthorizedError", "User not found", <<>>, {}, TRUE, "done")
        ELSE IF ~found[1].is_active
            THEN GateResult("UnauthorizedError", "User account is inactive", <<>>, {}, TRUE, "done")
        ELSE GateResult("", "", found, {}, TRUE, "done")

\* The statuses HTTPBearer answers a missing or malformed credential with:
\* 403 in the framework's older releases, 401 in its newer ones.
BearerErrorStatus == {403, 401}

\* The Authorization header of a request: absent, of another scheme,
\* "Bearer" without a credential, or "Bearer <token>".
NoHeader == [kind |-> "absent"]
BasicHeader == [kind |-> "basic"]
EmptyBearer == [kind |-> "bearer_empty"]
Bearer(token) == [kind |-> "bearer", token |-> token]

\* HTTPBearer(): the credential of a well-formed bearer header, HTTPException
\* otherwise.
HttpBearerDetail(authorization) ==
    CASE authorization.kind \in {"absent", "bearer_empty"} -> "Not authenticated"
      [] authorization.kind = "basic" -> "Invalid authentication credentials"
      [] OTHER -> ""

\* Mutant: every failure of the gate is answered as "User not found".
GateErrorResponseSwallow(result) == AppExceptionHandler(UnauthorizedError("User not found"))

\* The HTTP response of a protected route's dependency chain for a gate result
\* that raised: main.py's handlers by exception class.
GateErrorResponse(result) ==
    CASE result.raised = "UnauthorizedError" -> AppExceptionHandler(UnauthorizedError(result.message))
      [] result.raised = "SQLAlchemyError" -> SqlalchemyExceptionHandler
      [] OTHER -> GenericExceptionHandler

----------------------------------------------------------------------------
(* Users: src/api/routes/users.py, src/api/models/user.py *)

\* No request has been answered yet.
Idle == [op |-> "none"]

\* select(User).where(User.email == e) / (User.username == u) finds a row.
EmailExistsAmongActive(e) == \E i \in DOMAIN users : users[i].email = e /\ users[i].is_active
EmailExists(e) == \E i \in DOMAIN users : users[i].email = e
UsernameExistsAny(u) == users # <<>>
UsernameExists(u) == \E i \in DOMAIN users : users[i].username = u

\* The row create_user adds: the next id, is_active by its default True.
NewUser(data, salt) ==
    [id |-> nextId, email |-> data.email, username |-> data.username,
     full_name |-> data.full_name,
     hashed_password |-> HashPassword(data.password, salt), is_active |-> TRUE,
     created_at |-> dbNow, updated_at |-> dbNow]

\* for field, value in update_data.items(): setattr(user, field, value)
ApplyUpdateAndActivate(user, update_data) ==
    [f \in DOMAIN user |-> IF f \in DOMAIN update_data THEN update_data[f]
                           ELSE IF f = "is_active" THEN TRUE ELSE user[f]]
ApplyUpdate(user, update_data) ==
    [f \in DOMAIN user |-> IF f \in DOMAIN update_data THEN update_data[f] ELSE user[f]]

\* await db.commit() of an update: the UPDATE is sent only when a column has
\* a new value, and then updated_at takes the database clock (onupdate).
CommitUpdate(user, updated) ==
    IF updated = user THEN user ELSE [updated EXCEPT !.updated_at = dbNow]

\* The database server's clock advances.
DbTick ==
    /\ dbNow < MaxDbTime
    /\ dbNow' = dbNow + 1
    /\ response' = Idle
    /\ UNCHANGED <<now, keyfiles, users, nextId, issued, firstManager, todos, nextTodoId, reqs>>

\* UserCreate: the body validates when the password is there and has 8 to 100
\* characters (the email, username and full_name of the bodies used here are
\* valid).
ValidUserCreate(data) ==
    /\ "password" \in DOMAIN data
    /\ MinPasswordLength <= Len(data.password)
    /\ Len(data.password) <= MaxPasswordLength

\* POST /users
CreateUser(data, salt) ==
    /\ nextId <= MaxUsers
    /\ IF ~ValidUserCreate(data)
       THEN /\ response' = [op |-> "create_user", user_data |-> data] @@ ValidationExceptionHandler
            /\ UNCHANGED <<users, nextId>>
       ELSE IF EmailExists(data.email) \/ UsernameExists(data.username)
       THEN /\ response' = [op |-> "create_user", user_data |-> data]
                                @@ AppExceptionHandler(ConflictError("already exists"))
            /\ UNCHANGED <<users, nextId>>
       ELSE /\ users' = users @@ (nextId :> NewUser(data, salt))
            /\ nextId' = nextId + 1
            /\ response' = [op |-> "create_user", user_data |-> data, status |-> 201,
                            body |-> [shape |-> "user", user |-> NewUser(data, salt)]]
    /\ UNCHANGED <<now, keyfiles, issued, firstManager, todos, nextTodoId, reqs, dbNow>>

\* create_user, one request among others: the handler gives way at each await
\* (the two lookups, the commit, the refresh), every request has a session of
\* its own (get_db), and a lookup sees what other requests have committed.
\* A request stands at "check_email", "check_username", "commit", "refresh" or
\* "done".
Standing(r, pc) == r \in DOMAIN reqs /\ reqs[r].pc = pc

Finish(r, answer) ==
    /\ reqs' = [reqs EXCEPT ![r].pc = "done", ![r].response = answer]
    /\ response' = [op |-> reqs[r].route, user_data |-> reqs[r].user_data] @@ answer

\* The request arrives: the body is validated before the handler runs.
BeginCreateUser(data, salt) ==
    /\ Len(reqs) < MaxReqs
    /\ LET r == [route |-> "create_user", pc |-> "check_email", user_data |-> data,
                 salt |-> salt, user_id |-> 0, response |-> Idle]
       IN  IF ValidUserCreate(data)
           THEN /\ reqs' = Append(reqs, r)
                /\ UNCHANGED response
           ELSE /\ reqs' = Append(reqs, [r EXCEPT !.pc = "done",
                                                  !.response = ValidationExceptionHandler])
                /\ response' = [op |-> "create_user", user_data |-> data]
                                    @@ ValidationExceptionHandler
    /\ UNCHANGED <<now, keyfiles, users, nextId, issued, firstManager, todos, nextTodoId, dbNow>>

\* POST /auth/register arrives: the handler has the steps of create_user, so
\* the request then takes the steps below.
BeginRegister(data, salt) ==
    /\ Len(reqs) < MaxReqs
    /\ LET r == [route |-> "register", pc |-> "check_email", user_data |-> data,
                 salt |-> salt, user_id |-> 0, response |-> Idle]
       IN  IF ValidUserCreate(data)
           THEN /\ reqs' = Append(reqs, r)
                /\ UNCHANGED response
           ELSE /\ reqs' = Append(reqs, [r EXCEPT !.pc = "done",
                                                  !.response = ValidationExceptionHandler])
                /\ response' = [op |-> "register", user_data |-> data]
                                    @@ ValidationExceptionHandler
    /\ UNCHANGED <<now, keyfiles, users, nextId, issued, firstManager, todos, nextTodoId, dbNow>>

\* The unique constraints of users.email and users.username: a row may not
\* repeat the email or the username of another row (the row with the id own,
\* if any, is the one being written).
UniqueEmailOnly(row, own) ==
    \E i \in DOMAIN users \ {own} : users[i].email = row.email
UniqueViolation(row, own) ==
    \E i \in DOMAIN users \ {own} :
        users[i].email = row.email \/ users[i].username = row.username

\* await db.execute(select(User).where(User.email == user_data.email))
CheckEmail(r) ==
    /\ Standing(r, "check_email")
    /\ IF EmailExists(reqs[r].user_data.email)
       THEN Finish(r, AppExceptionHandler(ConflictError("already exists")))
       ELSE /\ reqs' = [reqs EXCEPT ![r].pc = "check_username"]
            /\ UNCHANGED response
    /\ UNCHANGED <<now, keyfiles, users, nextId, issued, firstManager, todos, nextTodoId, dbNow>>

\* await db.execute(select(User).where(User.username == user_data.username))
CheckUsername(r) ==
    /\ Standing(r, "check_username")
    /\ IF UsernameExists(reqs[r].user_data.username)
       THEN Finish(r, AppExceptionHandler(ConflictError("already taken")))
       ELSE /\ reqs' = [reqs EXCEPT ![r].pc = "commit"]
            /\ UNCHANGED response
    /\ UNCHANGED <<now, keyfiles, users, nextId, issued, firstManager, todos, nextTodoId, dbNow>>

\* hash_password, db.add(user), await db.commit(): the INSERT takes the next
\* id of the sequence, and the unique constraints of users.email and
\* users.username refuse a row that repeats one (IntegrityError, a
\* SQLAlchemyError); the id is spent either way.
Commit(r) ==
    /\ Standing(r, "commit")
    /\ nextId' = nextId + 1
    /\ IF UniqueViolation(reqs[r].user_data, 0)
       THEN /\ Finish(r, [raised |-> "IntegrityError"] @@ SqlalchemyExceptionHandler)
            /\ UNCHANGED users
       ELSE /\ users' = users @@ (nextId :> NewUser(reqs[r].user_data, reqs[r].salt))
            /\ reqs' = [reqs EXCEPT ![r].pc = "refresh", ![r].user_id = nextId]
            /\ UNCHANGED response
    /\ UNCHANGED <<now, keyfiles, issued, firstManager, todos, nextTodoId, dbNow>>

\* await db.refresh(user), return user: the row is read again and answered
\* with 201; a row that is gone makes refresh raise InvalidRequestError.
Refresh(r) ==
    /\ Standing(r, "refresh")
    /\ IF reqs[r].user_id \in DOMAIN users
       THEN Finish(r, [status |-> 201,
                       body |-> [shape |-> "user", user |-> users[reqs[r].user_id]]])
       ELSE Finish(r, [raised |-> "InvalidRequestError"] @@ SqlalchemyExceptionHandler)
    /\ UNCHANGED <<now, keyfiles, users, nextId, issued, firstManager, todos, nextTodoId, dbNow>>

\* PATCH /users/{user_id}
UpdateUser(user_id, update_data) ==
    /\ IF user_id \notin DOMAIN users
       THEN /\ response' = [op |-> "update_user", user_id |-> user_id, update_data |-> update_data]
                                @@ AppExceptionHandler(NotFoundError("not found"))
            /\ UNCHANGED users
       ELSE IF \/ /\ "email" \in DOMAIN update_data
                  /\ update_data.email # users[user_id].email
                  /\ EmailExists(update_data.email)
               \/ /\ "username" \in DOMAIN update_data
                  /\ update_data.username # users[user_id].username
                  /\ UsernameExists(update_data.username)
       THEN /\ response' = [op |-> "update_user", user_id |-> user_id, update_data |-> update_data]
                                @@ AppExceptionHandler(ConflictError("already in use"))
            /\ UNCHANGED users
       ELSE /\ users' = [users EXCEPT ![user_id] = CommitUpdate(@, ApplyUpdate(@, update_data))]
            /\ response' = [op |-> "update_user", user_id |-> user_id,
                            update_data |-> update_data, status |-> 200,
                            body |-> [shape |-> "user",
                                      user |-> CommitUpdate(users[user_id],
                                                   ApplyUpdate(users[user_id], update_data))]]
    /\ UNCHANGED <<now, keyfiles, nextId, issued, firstManager, todos, nextTodoId, reqs, dbNow>>

\* update_user, one request among others: the handler gives way at the lookup
\* of the user, at each uniqueness lookup, at the commit and at the refresh.
\* A request stands at "find_user", "check_new_email", "check_new_username",
\* "commit_update", "refresh_update" or "done"; user is the session's copy of
\* the row, read at the first lookup.
FinishUpdate(r, answer) ==
    /\ reqs' = [reqs EXCEPT ![r].pc = "done", ![r].response = answer]
    /\ response' = [op |-> "update_user", user_id |-> reqs[r].user_id,
                    update_data |-> reqs[r].update_data] @@ answer

BeginUpdateUser(user_id, update_data) ==
    /\ Len(reqs) < MaxReqs
    /\ reqs' = Append(reqs, [route |-> "update_user", pc |-> "find_user", user_id |-> user_id,
                             update_data |-> update_data, user |-> Idle, response |-> Idle])
    /\ UNCHANGED <<now, keyfiles, users, nextId, issued, firstManager, todos, nextTodoId,
                   response, dbNow>>

\* await db.execute(select(User).where(User.id == user_id))
FindUser(r) ==
    /\ Standing(r, "find_user")
    /\ IF reqs[r].user_id \notin DOMAIN users
       THEN FinishUpdate(r, AppExceptionHandler(NotFoundError("not found")))
       ELSE /\ reqs' = [reqs EXCEPT ![r].pc = "check_new_email",
                                    ![r].user = users[reqs[r].user_id]]
            /\ UNCHANGED response
    /\ UNCHANGED <<now, keyfiles, users, nextId, issued, firstManager, todos, nextTodoId, dbNow>>

\* if "email" in update_data and update_data["email"] != user.email: lookup
CheckNewEmail(r) ==
    /\ Standing(r, "check_new_email")
    /\ IF /\ "email" \in DOMAIN reqs[r].update_data
          /\ reqs[r].update_data.email # reqs[r].user.email
          /\ EmailExists(reqs[r].update_data.email)
       THEN FinishUpdate(r, AppExceptionHandler(ConflictError("already in use")))
       ELSE /\ reqs' = [reqs EXCEPT ![r].pc = "check_new_username"]
            /\ UNCHANGED response
    /\ UNCHANGED <<now, keyfiles, users, nextId, issued, firstManager, todos, nextTodoId, dbNow>>

\* if "username" in update_data and update_data["username"] != user.username:
\* lookup
CheckNewUsername(r) ==
    /\ Standing(r, "check_new_username")
    /\ IF /\ "username" \in DOMAIN reqs[r].update_data
          /\ reqs[r].update_data.username # reqs[r].user.username
          /\ UsernameExists(reqs[r].update_data.username)
       THEN FinishUpdate(r, AppExceptionHandler(ConflictError("already taken")))
       ELSE /\ reqs' = [reqs EXCEPT ![r].pc = "commit_update"]
            /\ UNCHANGED response
    /\ UNCHANGED <<now, keyfiles, users, nextId, issued, firstManager, todos, nextTodoId, dbNow>>

\* The columns whose value setattr changed on the session's copy.
ChangedFields(user, update_data) ==
    { f \in DOMAIN update_data : update_data[f] # user[f] }

\* setattr for each field, await db.commit(): the UPDATE sets the changed
\* columns (and updated_at) of the row with the id; no changed column, no
\* UPDATE. A row that is gone makes the flush raise StaleDataError, a row that
\* would repeat an email or a username IntegrityError: both SQLAlchemyErrors.
CommitUpdateUser(r) ==
    /\ Standing(r, "commit_update")
    /\ LET id      == reqs[r].user_id
           changed == ChangedFields(reqs[r].user, reqs[r].update_data)
           row     == [f \in DOMAIN users[id] |->
                          IF f \in changed THEN reqs[r].update_data[f]
                          ELSE IF f = "updated_at" THEN dbNow ELSE users[id][f]]
       IN  IF changed = {}
           THEN /\ reqs' = [reqs EXCEPT ![r].pc = "refresh_update"]
                /\ UNCHANGED <<users, response>>
           ELSE IF id \notin DOMAIN users
           THEN /\ FinishUpdate(r, [raised |-> "StaleDataError"] @@ SqlalchemyExceptionHandler)
                /\ UNCHANGED users
           ELSE IF UniqueViolation(row, id)
           THEN /\ FinishUpdate(r, [raised |-> "IntegrityError"] @@ SqlalchemyExceptionHandler)
                /\ UNCHANGED users
           ELSE /\ users' = [users EXCEPT ![id] = row]
                /\ reqs' = [reqs EXCEPT ![r].pc = "refresh_update"]
                /\ UNCHANGED response
    /\ UNCHANGED <<now, keyfiles, nextId, issued, firstManager, todos, nextTodoId, dbNow>>

\* await db.refresh(user), return user
RefreshUpdate(r) ==
    /\ Standing(r, "refresh_update")
    /\ IF reqs[r].user_id \in DOMAIN users
       THEN FinishUpdate(r, [status |-> 200,
                             body |-> [shape |-> "user", user |-> users[reqs[r].user_id]]])
       ELSE FinishUpdate(r, [raised |-> "InvalidRequestError"] @@ SqlalchemyExceptionHandler)
    /\ UNCHANGED <<now, keyfiles, users, nextId, issued, firstManager, todos, nextTodoId, dbNow>>

\* DELETE /users/{user_id}
DeleteUser(user_id) ==
    /\ IF user_id \notin DOMAIN users
       THEN /\ response' = [op |-> "delete_user", user_id |-> user_id]
                                @@ AppExceptionHandler(NotFoundError("not found"))
            /\ UNCHANGED <<users, todos>>
       ELSE /\ users' = [i \in DOMAIN users \ {user_id} |-> users[i]]
            /\ todos' = [t \in {t \in DOMAIN todos : todos[t].user_id # user_id} |-> todos[t]]
            /\ response' = [op |-> "delete_user", user_id |-> user_id,
                            status |-> 204, body |-> [shape |-> "none"]]
    /\ UNCHANGED <<now, keyfiles, nextId, issued, firstManager, nextTodoId, reqs, dbNow>>

\* GET /users/{user_id}
GetUser(user_id) ==
    /\ response' = [op |-> "get_user", user_id |-> user_id] @@
                        IF user_id \in DOMAIN users
                        THEN [status |-> 200, body |-> [shape |-> "user", user |-> users[user_id]]]
                        ELSE AppExceptionHandler(NotFoundError("not found"))
    /\ UNCHANGED <<now, keyfiles, users, nextId, issued, firstManager, todos, nextTodoId,
                   reqs, dbNow>>

\* The {user_id} segment of the path is a decimal numeral; Python reads it as
\* an int of any size. Numerals are sequences of digits without leading
\* zeros.
RECURSIVE DecimalValue(_)
DecimalValue(segment) ==
    IF segment = <<>> THEN 0
    ELSE 10 * DecimalValue(SubSeq(segment, 1, Len(segment) - 1)) + segment[Len(segment)]

\* The id column is a 32-bit integer (Mapped[int]): asyncpg refuses to bind a
\* greater parameter.
Int4MaxDigits == <<2, 1, 4, 7, 4, 8, 3, 6, 4, 7>>

RECURSIVE NumeralLeq(_, _)
NumeralLeq(a, b) ==
    IF Len(a) # Len(b) THEN Len(a) < Len(b)
    ELSE IF a = <<>> THEN TRUE
    ELSE IF a[1] # b[1] THEN a[1] < b[1]
    ELSE NumeralLeq(Tail(a), Tail(b))

FitsInt4(segment) == NumeralLeq(segment, Int4MaxDigits)

\* A request to /users/{user_id} that does not reach the store: Path(ge=1)
\* refuses a value below 1 with a validation error before the handler runs;
\* the handler's first statement is select(User).where(User.id == user_id),
\* which raises DBAPIError (a SQLAlchemyError) for a value out of the column's
\* range.
UserIdRefused(segment) == segment = <<0>> \/ ~FitsInt4(segment)

UsersRouteRefusal(op, segment) ==
    /\ response' = IF segment = <<0>>
                   THEN [op |-> op, segment |-> segment] @@ ValidationExceptionHandler
                   ELSE [op |-> op, segment |-> segment, raised |-> "DBAPIError"]
                            @@ SqlalchemyExceptionHandler
    /\ UNCHANGED <<now, keyfiles, users, nextId, issued, firstManager, todos,
                   nextTodoId, reqs, dbNow>>

\* The outcomes of binding (page - 1) * page_size as the OFFSET of a query:
\* an offset up to the greatest 32-bit integer binds; one of more than 19
\* digits exceeds every integer type of the database and raises DBAPIError;
\* between the two it depends on the integer type the driver binds OFFSET as.
Int4Max == DecimalValue(Int4MaxDigits)
OffsetBinds(page, page_size) ==
    IF FitsInt4(page) /\ DecimalValue(page) - 1 <= Int4Max \div page_size THEN {TRUE}
    ELSE IF Len(page) > 19 THEN {FALSE}
    ELSE BOOLEAN

\* The number of rows of select(User).offset(offset).limit(page_size).
PageLength(total, offset, page_size) ==
    IF offset >= total THEN 0
    ELSE IF total - offset < page_size THEN total - offset ELSE page_size

\* GET /users?page=..&page_size=..: Query(ge=1) and Query(ge=1, le=100) refuse
\* other values with a validation error; total is the number of all rows;
\* the page is read with OFFSET and LIMIT and no ORDER BY, so it holds any
\* rows of the table, as many as the table has beyond the offset and at most
\* page_size.
ListUsers(page, page_size) ==
    /\ IF page = <<0>> \/ page_size < 1 \/ page_size > MaxPageSize
       THEN response' = [op |-> "list_users", page |-> page, page_size |-> page_size]
                            @@ ValidationExceptionHandler
       ELSE \E binds \in OffsetBinds(page, page_size) :
            IF ~binds
            THEN response' = [op |-> "list_users", page |-> page, page_size |-> page_size,
                              raised |-> "DBAPIError"] @@ SqlalchemyExceptionHandler
            ELSE LET total == Cardinality(DOMAIN users)
                     \* an offset beyond 32 bits is beyond every row of the table
                     offset == IF OffsetBinds(page, page_size) = {TRUE}
                               THEN (DecimalValue(page) - 1) * page_size
                               ELSE Int4Max
                 IN  \E rows \in SUBSET DOMAIN users :
                        /\ Cardinality(rows) = PageLength(total, offset, page_size)
                        /\ response' = [op |-> "list_users", page |-> page,
                                        page_size |-> page_size, status |-> 200,
                                        body |-> [shape |-> "user_list",
                                                  users |-> { users[i] : i \in rows },
                                                  total |-> total, page |-> page,
                                                  page_size |-> page_size]]
    /\ UNCHANGED <<now, keyfiles, users, nextId, issued, firstManager, todos, nextTodoId,
                   reqs, dbNow>>

GetUserAt(segment) ==
    IF UserIdRefused(segment) THEN UsersRouteRefusal("get_user", segment)
    ELSE GetUser(DecimalValue(segment))

UpdateUserAt(segment, update_data) ==
    IF UserIdRefused(segment) THEN UsersRouteRefusal("update_user", segment)
    ELSE UpdateUser(DecimalValue(segment), update_data)

DeleteUserAt(segment) ==
    IF UserIdRefused(segment) THEN UsersRouteRefusal("delete_user", segment)
    ELSE DeleteUser(DecimalValue(segment))

----------------------------------------------------------------------------
(* Operations of the Token Manager and the gate *)
NoToken == [present |-> FALSE]

\* The clock advances by one tick.
Tick ==
    /\ now < MaxTime
    /\ now' = now + 1
    /\ response' = Idle
    /\ UNCHANGED <<keyfiles, users, nextId, issued, firstManager, todos, nextTodoId, reqs, dbNow>>

\* get_jwt_manager().create_access_token(subject, expires_delta)
IssueToken(subject, expires_delta) ==
    LET jwt_manager == GetJwtManager
        token == CreateAccessToken(jwt_manager, subject, expires_delta, now)
    IN  /\ IF jwt_manager.error # ""
           THEN /\ response' = [op |-> "get_jwt_manager", raised |-> jwt_manager.error,
                                jwt_manager |-> jwt_manager]
                /\ UNCHANGED issued
           ELSE /\ issued' = [present |-> TRUE, token |-> token, subject |-> subject,
                              expires_delta |-> expires_delta, at |-> now,
                              last_ok |-> -1, first_expired |-> -1]
                /\ response' = [op |-> "create_access_token", raised |-> "", token |-> token,
                                jwt_manager |-> jwt_manager]
        /\ firstManager' = FirstManagerAfter(jwt_manager)
        /\ UNCHANGED <<now, keyfiles, users, nextId, todos, nextTodoId, reqs, dbNow>>

\* get_jwt_manager().decode_token(token)
Decode(token) ==
    LET jwt_manager == GetJwtManager
        decoded == DecodeToken(jwt_manager, token, now)
    IN  /\ IF jwt_manager.error # ""
           THEN response' = [op |-> "get_jwt_manager", raised |-> jwt_manager.error,
                             jwt_manager |-> jwt_manager]
           ELSE response' = [op |-> "decode_token", token |-> token,
                             raised |-> decoded.raised, payload |-> decoded.payload,
                             jwt_manager |-> jwt_manager]
        /\ firstManager' = FirstManagerAfter(jwt_manager)
        /\ UNCHANGED <<now, keyfiles, users, nextId, issued, todos, nextTodoId, reqs, dbNow>>

\* JWTManager(private_key_path, public_key_path, private_key_password) in a
\* process whose environment holds env: args names what the paths lead to.
NewJWTManager(args) ==
    LET jwt_manager == JWTManagerInit(args)
    IN  /\ response' = [op |-> "JWTManager", args |-> args, jwt_manager |-> jwt_manager]
        /\ firstManager' = FirstManagerAfter(jwt_manager)
        /\ UNCHANGED <<now, keyfiles, users, nextId, issued, todos, nextTodoId, reqs, dbNow>>

\* verify_password(p2, hash_password(p1))
HashThenVerify(p1, p2, salt) ==
    LET hashed == HashPassword(p1, salt)
        verified == VerifyPassword(p2, hashed)
    IN  /\ response' = [op |-> "verify_password", hashed_from |-> p1, plain_password |-> p2,
                        hashed_password |-> hashed,
                        raised |-> verified.raised, value |-> verified.value]
        /\ UNCHANGED <<now, keyfiles, users, nextId, issued, firstManager, todos, nextTodoId, reqs, dbNow>>

\* A client decodes the token issued last and keeps the times of what it saw:
\* the last time the token was accepted, the first time it was expired.
VerifyIssued ==
    LET jwt_manager == GetJwtManager
        decoded == DecodeToken(jwt_manager, issued.token, now)
    IN  /\ issued.present
        /\ jwt_manager.error = ""
        /\ response' = [op |-> "decode_token", token |-> issued.token,
                        raised |-> decoded.raised, payload |-> decoded.payload,
                        jwt_manager |-> jwt_manager]
        /\ issued' = [issued EXCEPT
                        !.last_ok = IF decoded.raised = "" THEN now ELSE @,
                        !.first_expired = IF decoded.raised = "ExpiredSignatureError" /\ @ = -1
                                          THEN now ELSE @]
        /\ firstManager' = FirstManagerAfter(jwt_manager)
        /\ UNCHANGED <<now, keyfiles, users, nextId, todos, nextTodoId, reqs, dbNow>>

\* The key files on disk are replaced by those of another key pair (a key
\* rotation by the operator) while the process runs.
RotateKeyFiles(k) ==
    /\ keyfiles.private # k
    /\ keyfiles' = [HealthyKeyFiles EXCEPT !.private = k, !.public = k]
    /\ response' = Idle
    /\ UNCHANGED <<now, users, nextId, issued, firstManager, todos, nextTodoId, reqs, dbNow>>

\* Mutant: the gate locks an account out: a request that is refused for an
\* existing user deactivates that user.
AuthMeLockout(authorization, db_up) ==
    /\ authorization.kind = "bearer"
    /\ LET result == GetCurrentUser(authorization.token, db_up)
       IN  /\ result.raised # ""
           /\ response' = [op |-> "auth", authorization |-> authorization, gate |-> result,
                           jwt_manager |-> GetJwtManager]
                          @@ GateErrorResponse(result)
           /\ users' = [i \in DOMAIN users |-> [users[i] EXCEPT !.is_active = FALSE]]
    /\ firstManager' = FirstManagerAfter(GetJwtManager)
    /\ UNCHANGED <<now, keyfiles, nextId, issued, todos, nextTodoId, reqs, dbNow>>

\* GET /auth/me, a protected route: HTTPBearer, then get_current_user, then
\* the route, which returns the current user.
AuthMe(authorization, db_up) ==
    /\ IF authorization.kind # "bearer"
       THEN /\ \E status \in BearerErrorStatus :
                response' = [op |-> "auth", authorization |-> authorization,
                             gate |-> GateResult("HTTPException", "", <<>>, {}, FALSE, "none")]
                            @@ HttpExceptionResponse(status, HttpBearerDetail(authorization))
            /\ UNCHANGED firstManager
       ELSE LET result == GetCurrentUser(authorization.token, db_up)
            IN  /\ IF result.raised # ""
                   THEN response' = [op |-> "auth", authorization |-> authorization, gate |-> result,
                                     jwt_manager |-> GetJwtManager]
                                    @@ GateErrorResponse(result)
                   ELSE response' = [op |-> "auth", authorization |-> authorization, gate |-> result,
                                     jwt_manager |-> GetJwtManager,
                                     status |-> 200,
                                     body |-> [shape |-> "user", user |-> result.user[1]]]
                /\ firstManager' = FirstManagerAfter(GetJwtManager)
    /\ UNCHANGED <<now, keyfiles, users, nextId, issued, todos, nextTodoId, reqs, dbNow>>

\* select(User).where((User.username == name) | (User.email == name)),
\* scalar_one_or_none(): <<row>> or <<>> (a username holds no "@", so no name
\* matches two rows).
UserByName(name) ==
    LET found == { i \in DOMAIN users : users[i].username = name \/ users[i].email = name }
    IN  IF found = {} THEN <<>> ELSE <<users[CHOOSE i \in found : TRUE]>>

\* POST /auth/register: the checks and the insert of create_user, in the auth
\* router.
Register(data, salt) ==
    /\ nextId <= MaxUsers
    /\ IF ~ValidUserCreate(data)
       THEN /\ response' = [op |-> "register", user_data |-> data] @@ ValidationExceptionHandler
            /\ UNCHANGED <<users, nextId>>
       ELSE IF EmailExists(data.email) \/ UsernameExists(data.username)
       THEN /\ response' = [op |-> "register", user_data |-> data]
                                @@ AppExceptionHandler(ConflictError("already exists"))
            /\ UNCHANGED <<users, nextId>>
       ELSE /\ users' = users @@ (nextId :> NewUser(data, salt))
            /\ nextId' = nextId + 1
            /\ response' = [op |-> "register", user_data |-> data, status |-> 201,
                            body |-> [shape |-> "user", user |-> NewUser(data, salt)]]
    /\ UNCHANGED <<now, keyfiles, issued, firstManager, todos, nextTodoId, reqs, dbNow>>

\* timedelta(hours=24), in ticks.
LoginExpireTicks == LoginExpireHours * 3600 * TicksPerSecond

\* POST /auth/login: the user by username or email, verify_password, the
\* active flag, then a token for str(user.id) that lasts 24 hours. An
\* exception of verify_password or get_jwt_manager is no AppException and is
\* answered by generic_exception_handler.
Login(login_data) ==
    LET user == UserByName(login_data.username)
        verified == VerifyPassword(login_data.password, user[1].hashed_password)
        jwt_manager == GetJwtManager
        token == CreateAccessToken(jwt_manager, PyStr(user[1].id), Delta(LoginExpireTicks), now)
        Answer(r) == [op |-> "login", login_data |-> login_data, user |-> user] @@ r
    IN  /\ IF user = <<>>
           THEN /\ response' = Answer(AppExceptionHandler(
                                    UnauthorizedError("Incorrect username or password")))
                /\ UNCHANGED <<issued, firstManager>>
           ELSE IF verified.raised # ""
           THEN /\ response' = Answer([raised |-> verified.raised] @@ GenericExceptionHandler)
                /\ UNCHANGED <<issued, firstManager>>
           ELSE IF ~verified.value
           THEN /\ response' = Answer(AppExceptionHandler(
                                    UnauthorizedError("Incorrect username or password")))
                /\ UNCHANGED <<issued, firstManager>>
           ELSE IF ~user[1].is_active
           THEN /\ response' = Answer(AppExceptionHandler(
                                    UnauthorizedError("User account is inactive")))
                /\ UNCHANGED <<issued, firstManager>>
           ELSE IF jwt_manager.error # ""
           THEN /\ response' = Answer([raised |-> jwt_manager.error, jwt_manager |-> jwt_manager]
                                      @@ GenericExceptionHandler)
                /\ UNCHANGED <<issued, firstManager>>
           ELSE /\ response' = Answer([jwt_manager |-> jwt_manager, status |-> 200,
                                       body |-> [shape |-> "token", access_token |-> token,
                                                 token_type |-> "bearer",
                                                 expires_in |-> LoginExpireHours * 3600]])
                /\ issued' = [present |-> TRUE, token |-> token, subject |-> PyStr(user[1].id),
                              expires_delta |-> Delta(LoginExpireTicks), at |-> now,
                              last_ok |-> -1, first_expired |-> -1]
                /\ firstManager' = FirstManagerAfter(jwt_manager)
        /\ UNCHANGED <<now, keyfiles, users, nextId, todos, nextTodoId, reqs, dbNow>>

\* verify_password(plain_password, hashed_password) on a stored string.
Verify(plain_password, hashed_password) ==
    LET verified == VerifyPassword(plain_password, hashed_password)
    IN  /\ response' = [op |-> "verify_password", plain_password |-> plain_password,
                        hashed_password |-> hashed_password,
                        raised |-> verified.raised, value |-> verified.value]
        /\ UNCHANGED <<now, keyfiles, users, nextId, issued, firstManager, todos, nextTodoId, reqs, dbNow>>

\* The stored hash of a user is damaged outside the application (a manual
\* edit, a faulty migration): the column then holds a string that is no hash.
CorruptStoredHash(user_id, hash) ==
    /\ user_id \in DOMAIN users
    /\ users[user_id].hashed_password # hash
    /\ users' = [users EXCEPT ![user_id].hashed_password = hash]
    /\ response' = Idle
    /\ UNCHANGED <<now, keyfiles, nextId, issued, firstManager, todos, nextTodoId, reqs, dbNow>>

\* POST /todos with a bearer credential: the gate, then the insert of a todo
\* owned by the current user.
CreateTodo(token, todo_data, db_up) ==
    LET result == GetCurrentUser(token, db_up)
        todo == [id |-> nextTodoId, title |-> todo_data.title, is_completed |-> FALSE,
                 priority |-> todo_data.priority, user_id |-> result.user[1].id,
                 created_at |-> dbNow, updated_at |-> dbNow]
    IN  /\ nextTodoId <= MaxTodos
        /\ IF result.raised # ""
           THEN /\ response' = [op |-> "create_todo", authorization |-> Bearer(token),
                                gate |-> result, jwt_manager |-> GetJwtManager]
                               @@ GateErrorResponse(result)
                /\ UNCHANGED <<todos, nextTodoId>>
           ELSE /\ todos' = todos @@ (nextTodoId :> todo)
                /\ nextTodoId' = nextTodoId + 1
                /\ response' = [op |-> "create_todo", authorization |-> Bearer(token),
                                gate |-> result, jwt_manager |-> GetJwtManager,
                                status |-> 201, body |-> [shape |-> "todo", todo |-> todo]]
        /\ firstManager' = FirstManagerAfter(GetJwtManager)
        /\ UNCHANGED <<now, keyfiles, users, nextId, issued, reqs, dbNow>>

\* ForbiddenError of core/exceptions.py.
ForbiddenError(message) == [status_code |-> 403, message |-> message]

\* todo.user_id != current_user.id, negated.
TodoOwnedByAnyone(todo, current_user) == TRUE
TodoOwnedBy(todo, current_user) == todo.user_id = current_user.id

\* A request to a route of /todos: HTTPBearer, then get_current_user, then the
\* handler with the current user. TodosGate is what get_current_user gives
\* for the request's bearer token.
TodosGate(request) == GetCurrentUser(request.authorization.token, TRUE)

\* The request does not reach the handler.
TodosRouteRefuses(request) ==
    \/ request.authorization.kind # "bearer"
    \/ TodosGate(request).raised # ""

\* A request refused before the handler changes nothing.
TodosRouteRefusal(request) ==
    IF request.authorization.kind # "bearer"
    THEN /\ \E status \in BearerErrorStatus :
              response' = request @@
                    [gate |-> GateResult("HTTPException", "", <<>>, {}, FALSE, "none")] @@
                    HttpExceptionResponse(status, HttpBearerDetail(request.authorization))
         /\ UNCHANGED <<todos, nextTodoId, firstManager>>
    ELSE /\ firstManager' = FirstManagerAfter(GetJwtManager)
         /\ response' = request @@ [gate |-> TodosGate(request)]
                                @@ GateErrorResponse(TodosGate(request))
         /\ UNCHANGED <<todos, nextTodoId>>

\* The request as the handler answers it, and its current user.
Admitted(request) == request @@ [gate |-> TodosGate(request)]
CurrentUser(request) == TodosGate(request).user[1]

\* POST /todos of any request.
CreateTodoAs(authorization, todo_data) ==
    LET request == [op |-> "create_todo", authorization |-> authorization, todo_data |-> todo_data]
        todo == [id |-> nextTodoId, title |-> todo_data.title, is_completed |-> FALSE,
                 priority |-> todo_data.priority, user_id |-> CurrentUser(request).id,
                 created_at |-> dbNow, updated_at |-> dbNow]
    IN  /\ nextTodoId <= MaxTodos
        /\ IF TodosRouteRefuses(request) THEN TodosRouteRefusal(request)
           ELSE /\ firstManager' = FirstManagerAfter(GetJwtManager)
                /\ todos' = todos @@ (nextTodoId :> todo)
                /\ nextTodoId' = nextTodoId + 1
                /\ response' = Admitted(request)
                                    @@ [status |-> 201, body |-> [shape |-> "todo", todo |-> todo]]
        /\ UNCHANGED <<now, keyfiles, users, nextId, issued, reqs, dbNow>>

\* The start of get_todo, update_todo and delete_todo: the todo by id, 404
\* when there is none, 403 when it is another user's.
TodoDenied(todo_id, current_user) ==
    \/ todo_id \notin DOMAIN todos
    \/ ~TodoOwnedBy(todos[todo_id], current_user)

TodoDenial(request, todo_id, denial) ==
    /\ response' = Admitted(request) @@
                        (IF todo_id \notin DOMAIN todos
                         THEN AppExceptionHandler(NotFoundError("not found"))
                         ELSE AppExceptionHandler(ForbiddenError(denial)))
    /\ UNCHANGED <<todos, nextTodoId>>

\* GET /todos/{todo_id}
GetTodo(authorization, todo_id) ==
    LET request == [op |-> "get_todo", authorization |-> authorization, todo_id |-> todo_id]
    IN  /\ IF TodosRouteRefuses(request) THEN TodosRouteRefusal(request)
           ELSE /\ firstManager' = FirstManagerAfter(GetJwtManager)
                /\ IF TodoDenied(todo_id, CurrentUser(request))
                   THEN TodoDenial(request, todo_id,
                                   "You don't have permission to access this todo")
                   ELSE /\ response' = Admitted(request) @@
                                [status |-> 200,
                                 body |-> [shape |-> "todo", todo |-> todos[todo_id]]]
                        /\ UNCHANGED <<todos, nextTodoId>>
        /\ UNCHANGED <<now, keyfiles, users, nextId, issued, reqs, dbNow>>

\* PATCH /todos/{todo_id}: the fields of the body are set on the row, and the
\* commit stamps updated_at when a column has a new value.
UpdateTodo(authorization, todo_id, todo_data) ==
    LET request == [op |-> "update_todo", authorization |-> authorization,
                    todo_id |-> todo_id, todo_data |-> todo_data]
        todo == CommitUpdate(todos[todo_id], ApplyUpdate(todos[todo_id], todo_data))
    IN  /\ IF TodosRouteRefuses(request) THEN TodosRouteRefusal(request)
           ELSE /\ firstManager' = FirstManagerAfter(GetJwtManager)
                /\ IF TodoDenied(todo_id, CurrentUser(request))
                   THEN TodoDenial(request, todo_id,
                                   "You don't have permission to modify this todo")
                   ELSE /\ todos' = [todos EXCEPT ![todo_id] = todo]
                        /\ response' = Admitted(request) @@
                                [status |-> 200, body |-> [shape |-> "todo", todo |-> todo]]
                        /\ UNCHANGED nextTodoId
        /\ UNCHANGED <<now, keyfiles, users, nextId, issued, reqs, dbNow>>

\* DELETE /todos/{todo_id}
DeleteTodo(authorization, todo_id) ==
    LET request == [op |-> "delete_todo", authorization |-> authorization, todo_id |-> todo_id]
    IN  /\ IF TodosRouteRefuses(request) THEN TodosRouteRefusal(request)
           ELSE /\ firstManager' = FirstManagerAfter(GetJwtManager)
                /\ IF TodoDenied(todo_id, CurrentUser(request))
                   THEN TodoDenial(request, todo_id,
                                   "You don't have permission to delete this todo")
                   ELSE /\ todos' = [t \in DOMAIN todos \ {todo_id} |-> todos[t]]
                        /\ response' = Admitted(request) @@
                                [status |-> 204, body |-> [shape |-> "none"]]
                        /\ UNCHANGED nextTodoId
        /\ UNCHANGED <<now, keyfiles, users, nextId, issued, reqs, dbNow>>

\* The pages that OFFSET offset LIMIT page_size ORDER BY created_at DESC can
\* give of the rows in ids: page_size rows or what is left, each row before
\* the page at least as new as the rows of the page, each row after it at most
\* as new (rows of one instant come in any order).
PagesOf(ids, offset, page_size) ==
    { page \in SUBSET ids :
        /\ Cardinality(page) = PageLength(Cardinality(ids), offset, page_size)
        /\ \E before \in SUBSET (ids \ page) :
              /\ Cardinality(before) = (IF offset < Cardinality(ids) THEN offset
                                        ELSE Cardinality(ids))
              /\ \A b \in before, t \in page : todos[b].created_at >= todos[t].created_at
              /\ \A a \in ids \ (page \cup before), t \in page \cup before :
                    todos[a].created_at <= todos[t].created_at }

\* GET /todos?page=..&page_size=..&completed=..: the current user's todos,
\* those of the given completion when completed is given ("none" when it is
\* not), counted, and one page of them.
ListTodos(authorization, page, page_size, completed) ==
    LET request == [op |-> "list_todos", authorization |-> authorization, page |-> page,
                    page_size |-> page_size, completed |-> completed]
        ids == { t \in DOMAIN todos :
                    /\ todos[t].user_id = CurrentUser(request).id
                    /\ completed = "none" \/ todos[t].is_completed = (completed = "true") }
    IN  /\ IF TodosRouteRefuses(request) THEN TodosRouteRefusal(request)
           ELSE /\ firstManager' = FirstManagerAfter(GetJwtManager)
                /\ \E rows \in PagesOf(ids, (page - 1) * page_size, page_size) :
                      response' = Admitted(request) @@
                            [status |-> 200,
                             body |-> [shape |-> "todo_list",
                                       todos |-> { todos[t] : t \in rows },
                                       total |-> Cardinality(ids),
                                       page |-> page, page_size |-> page_size]]
                /\ UNCHANGED <<todos, nextTodoId>>
        /\ UNCHANGED <<now, keyfiles, users, nextId, issued, reqs, dbNow>>

----------------------------------------------------------------------------
(* Inputs *)

MaxSeconds == MaxTime \div TicksPerSecond

\* Subjects: the ids of users that may exist, and a subject that is no number
\* (create_access_token takes any subject, "typically user ID or username").
Subjects == {PyStr(i) : i \in 1..MaxUsers} \cup {<<"a">>}

\* expires_delta: None, or a timedelta from one tick back to a tick more than
\* a second ahead.
ExpiresDeltas == {NoDelta} \cup {Delta(d) : d \in -1..(TicksPerSecond + 1)}

\* A token string that is no JWT (not three segments, truncated, bad base64).
MalformedToken == [wf |-> FALSE]

\* Payloads a signer may put in a token: exp and iat, with or without sub.
Payloads ==
    { [exp |-> e, iat |-> 0, sub |-> s] : e \in 0..(MaxSeconds + 1), s \in Subjects }
    \cup { [exp |-> e, iat |-> 0] : e \in 0..(MaxSeconds + 1) }

\* The tokens a client may present: a malformed one, tokens signed with the
\* deployment's key pair, tokens signed with another key pair, and the token
\* issued last.
SignedTokens(k) == { [wf |-> TRUE, key |-> k, payload |-> p] : p \in Payloads }
PresentedTokens ==
    {MalformedToken} \cup SignedTokens("k1")
    \cup { t \in SignedTokens("k2") : "sub" \in DOMAIN t.payload /\ t.payload.sub = <<"1">> }
    \cup (IF issued.present THEN {issued.token} ELSE {})

\* The arguments and environment a JWTManager may be constructed with.
Passphrases == {"none", "right", "wrong"}
KeyFileArgs ==
    [private : KeyFileContents, public : KeyFileContents,
     password : Passphrases, env : Passphrases]

\* Request bodies of POST /todos.
TodoCreates == { [title |-> "milk", priority |-> "medium"] }

Authorizations == {NoHeader, BasicHeader, EmptyBearer} \cup { Bearer(t) : t \in PresentedTokens }

\* Request bodies of POST /users and PATCH /users/{id}.
\* n times the character "a".
Pad(n) == [i \in 1..n |-> CharA]

\* Passwords around the 72-byte limit: 70 bytes of "a", then up to MaxTail
\* characters of one, two or three bytes each.
Chars == {CharA, CharEAcute, CharEuro, CharHiraganaA}
Tails == UNION { [1..n -> Chars] : n \in 0..MaxTail }
LongPasswords == { Pad(BcryptLimit - 2) \o t : t \in Tails }

\* Passwords of users: eight characters, the least UserCreate accepts.
PasswordOfAnn == Pad(MinPasswordLength)
PasswordOfBob == Pad(MinPasswordLength - 1) \o <<CharB>>

UserCreates ==
    { [email |-> "ann@x.io", username |-> "ann", full_name |-> "Ann", password |-> PasswordOfAnn],
      [email |-> "bob@x.io", username |-> "bob", full_name |-> "Bob", password |-> PasswordOfBob] }
UserUpdates == { [is_active |-> FALSE], [is_active |-> TRUE], [email |-> "bob@x.io"] }
Salts == {"s1"}

\* Request bodies of POST /users for the user store: ann and bob, a body with
\* ann's email under another username, a body with bob's username under
\* another email, and a body without a password (tests/integration posts such
\* bodies).
StoreCreates ==
    UserCreates \cup
    { [email |-> "ann@x.io", username |-> "ann2", full_name |-> "Ann", password |-> PasswordOfAnn],
      [email |-> "bob2@x.io", username |-> "bob", full_name |-> "Bob", password |-> PasswordOfBob],
      [email |-> "ann@x.io", username |-> "ann3", full_name |-> "Ann"] }

\* Request bodies of POST /users that arrive together: ann and bob, a body
\* with ann's email under another username, and a body without a password.
ConcCreates ==
    UserCreates \cup
    { [email |-> "ann@x.io", username |-> "ann2", full_name |-> "Ann", password |-> PasswordOfAnn],
      [email |-> "cat@x.io", username |-> "cat", full_name |-> "Cat"] }

\* Request bodies of PATCH /users/{user_id} for the user store.
StoreUpdates ==
    { [email |-> "ann@x.io"], [email |-> "bob@x.io"], [username |-> "ann"], [username |-> "bob"],
      [email |-> "cat@x.io", username |-> "ann"], [is_active |-> FALSE] }

\* Request bodies of PATCH /users/{user_id} that change a row: two fields at
\* once (the body of test_update_user_success), one field, a value the row
\* may already have, and an email that may be taken.
StampUpdates ==
    { [full_name |-> "Updated Name", is_active |-> FALSE], [full_name |-> "Ann"],
      [is_active |-> TRUE], [email |-> "bob@x.io"] }

\* The {user_id} segments of requests: 0, the ids the store may give out, one
\* more, the 99999 of the tests, the greatest 32-bit integer and its successor.
PathIds ==
    { <<n>> : n \in 0..(MaxUsers + 1) } \cup
    { <<9, 9, 9, 9, 9>>, Int4MaxDigits, <<2, 1, 4, 7, 4, 8, 3, 6, 4, 8>> }

\* The page and page_size of GET /users: pages 0 to 3, a page whose offset
\* exceeds 32 bits with page_size 100, and a page of 20 digits; sizes 0 to
\* MaxUsers + 1, the greatest size and one more.
Pages ==
    { <<n>> : n \in 0..3 } \cup
    { <<2, 1, 4, 7, 4, 8, 3, 7>>,
      <<1, 0, 0, 0, 0, 0, 0, 0, 0, 0, 0, 0, 0, 0, 0, 0, 0, 0, 0, 0>> }
PageSizes == 0..(MaxUsers + 1) \cup {MaxPageSize, MaxPageSize + 1}

\* The credentials of requests to /todos: none, and for each user id a token
\* of the deployment's key pair that does not expire within the run.
OwnerTokens ==
    { [wf |-> TRUE, key |-> "k1",
       payload |-> [exp |-> MaxSeconds + 1, iat |-> 0, sub |-> PyStr(i)]] : i \in 1..MaxUsers }
TodoBearers == { Bearer(t) : t \in OwnerTokens }
TodoAuthorizations == {NoHeader} \cup TodoBearers

\* Request bodies of PATCH /todos/{todo_id}.
TodoUpdates == { [is_completed |-> TRUE] }

\* Request bodies of POST /auth/login: a username, an email or a name nobody
\* has, with one of the passwords.
LoginRequests ==
    [username : {"ann", "bob@x.io", "zed"}, password : {PasswordOfAnn, PasswordOfBob}]

\* Strings a hashed_password column may hold that are no hash.
MalformedHashes == {UnidentifiedHash, CutBcryptHash}

----------------------------------------------------------------------------
(* The specification *)

Init ==
    /\ now = 0
    /\ keyfiles \in KeyFileStates
    /\ users = <<>>
    /\ nextId = 1
    /\ issued = NoToken
    /\ response = Idle
    /\ firstManager = NoManager
    /\ todos = <<>>
    /\ nextTodoId = 1
    /\ reqs = <<>>
    /\ dbNow = 0

\* The gate and the user store it reads: requests to protected routes, user
\* management and the clock.
Next ==
    \/ Tick
    \/ \E a \in Authorizations, db_up \in BOOLEAN : AuthMe(a, db_up)
    \/ \E t \in PresentedTokens : Decode(t)
    \/ \E data \in UserCreates, salt \in Salts : CreateUser(data, salt)
    \/ \E i \in 1..MaxUsers, data \in UserUpdates : UpdateUser(i, data)
    \/ \E i \in 1..MaxUsers : DeleteUser(i)

Spec == Init /\ [][Next]_vars

\* The Token Manager on its own: tokens are issued and decoded while the clock
\* advances and the user store changes.
NextToken ==
    \/ Tick
    \/ \E s \in Subjects, d \in ExpiresDeltas : IssueToken(s, d)
    \/ \E t \in PresentedTokens : Decode(t)
    \/ \E data \in UserCreates, salt \in Salts : CreateUser(data, salt)

SpecToken == Init /\ [][NextToken]_vars

\* The Token Manager's keys: tokens are issued and verified, directly and at
\* the gate, while the key files on disk may be replaced.
NextKeys ==
    \/ \E d \in {NoDelta, Delta(TicksPerSecond)} : IssueToken(PyStr(1), d)
    \/ \E t \in PresentedTokens : Decode(t)
    \/ \E t \in PresentedTokens : AuthMe(Bearer(t), TRUE)
    \/ \E data \in UserCreates, salt \in Salts : CreateUser(data, salt)
    \/ \E k \in KeyPairs : RotateKeyFiles(k)

SpecKeys == Init /\ [][NextKeys]_vars

\* The Key Loader: Token Managers are constructed from every kind of key
\* file and passphrase.
NextLoad ==
    \E args \in KeyFileArgs : NewJWTManager(args)

SpecLoad == Init /\ [][NextLoad]_vars

\* The gate in front of the todo routes: users come and go, todos are
\* created by authenticated users, and requests are authenticated.
NextTodos ==
    \/ \E data \in UserCreates, salt \in Salts : CreateUser(data, salt)
    \/ \E i \in 1..MaxUsers : UpdateUser(i, [is_active |-> FALSE])
    \/ \E i \in 1..MaxUsers : DeleteUser(i)
    \/ \E t \in PresentedTokens, data \in TodoCreates : CreateTodo(t, data, TRUE)
    \/ \E a \in Authorizations, db_up \in BOOLEAN : AuthMe(a, db_up)

SpecTodos == Init /\ [][NextTodos]_vars

\* The Password Hasher: passwords are hashed and verified against hashes. A
\* call depends on nothing but its arguments, so each is made from the
\* initial state.
NextHash ==
    /\ response = Idle
    /\ \E p1 \in LongPasswords, p2 \in LongPasswords, salt \in Salts :
            HashThenVerify(p1, p2, salt)

SpecHash == Init /\ [][NextHash]_vars

\* The user store: users are created, updated and deleted, one request at a time.
NextStore ==
    \/ \E data \in StoreCreates, salt \in Salts : CreateUser(data, salt)
    \/ \E i \in 1..MaxUsers, data \in StoreUpdates : UpdateUser(i, data)
    \/ \E i \in 1..MaxUsers : DeleteUser(i)

SpecStore == Init /\ [][NextStore]_vars

\* Concurrent create_user requests: up to MaxReqs requests arrive at any
\* time and their steps interleave freely.
NextConc ==
    \/ \E data \in ConcCreates, salt \in Salts : BeginCreateUser(data, salt)
    \/ \E r \in 1..MaxReqs : CheckEmail(r)
    \/ \E r \in 1..MaxReqs : CheckUsername(r)
    \/ \E r \in 1..MaxReqs : Commit(r)
    \/ \E r \in 1..MaxReqs : Refresh(r)

SpecConc == Init /\ [][NextConc]_vars

\* Requests that race for an email or a username: cat is created or
\* registered, and users take cat's email or cat's username.
RaceCreates ==
    { [email |-> "cat@x.io", username |-> "cat", full_name |-> "Cat", password |-> PasswordOfAnn] }
RaceUpdates == { [email |-> "cat@x.io"], [username |-> "cat"] }

\* Concurrent register, create_user and update_user requests; create_user
\* requests that are answered before the others arrive fill the store.
NextRace ==
    \/ \E data \in UserCreates, salt \in Salts : reqs = <<>> /\ CreateUser(data, salt)
    \/ \E data \in RaceCreates, salt \in Salts : BeginCreateUser(data, salt)
    \/ \E data \in RaceCreates, salt \in Salts : BeginRegister(data, salt)
    \/ \E i \in 1..MaxUsers, data \in RaceUpdates : BeginUpdateUser(i, data)
    \/ \E r \in 1..MaxReqs : CheckEmail(r)
    \/ \E r \in 1..MaxReqs : CheckUsername(r)
    \/ \E r \in 1..MaxReqs : Commit(r)
    \/ \E r \in 1..MaxReqs : Refresh(r)
    \/ \E r \in 1..MaxReqs : FindUser(r)
    \/ \E r \in 1..MaxReqs : CheckNewEmail(r)
    \/ \E r \in 1..MaxReqs : CheckNewUsername(r)
    \/ \E r \in 1..MaxReqs : CommitUpdateUser(r)
    \/ \E r \in 1..MaxReqs : RefreshUpdate(r)

SpecRace == Init /\ [][NextRace]_vars

\* Rows and their timestamps: users are created and updated while the
\* database clock advances.
NextStamp ==
    \/ DbTick
    \/ \E data \in UserCreates, salt \in Salts : CreateUser(data, salt)
    \/ \E i \in 1..MaxUsers, data \in StampUpdates : UpdateUser(i, data)

SpecStamp == Init /\ [][NextStamp]_vars

\* Requests by id: users are created, and read, updated and deleted through
\* /users/{user_id}.
NextPath ==
    \/ \E data \in UserCreates, salt \in Salts : CreateUser(data, salt)
    \/ \E segment \in PathIds : GetUserAt(segment)
    \/ \E segment \in PathIds, data \in UserUpdates : UpdateUserAt(segment, data)
    \/ \E segment \in PathIds : DeleteUserAt(segment)

SpecPath == Init /\ [][NextPath]_vars

\* Listing: users are created and deleted, and listed page by page.
NextList ==
    \/ \E data \in StoreCreates, salt \in Salts : CreateUser(data, salt)
    \/ \E i \in 1..MaxUsers : DeleteUser(i)
    \/ \E page \in Pages, page_size \in PageSizes : ListUsers(page, page_size)

SpecList == Init /\ [][NextList]_vars

\* Todos and their owners: users are created and deactivated, and create,
\* read, list, change and delete todos.
NextOwn ==
    \/ \E data \in UserCreates, salt \in Salts : CreateUser(data, salt)
    \/ \E i \in 1..MaxUsers : UpdateUser(i, [is_active |-> FALSE])
    \/ \E a \in TodoAuthorizations, data \in TodoCreates : CreateTodoAs(a, data)
    \/ \E a \in TodoAuthorizations, t \in 1..MaxTodos : GetTodo(a, t)
    \/ \E a \in TodoBearers, t \in 1..MaxTodos, data \in TodoUpdates : UpdateTodo(a, t, data)
    \/ \E a \in TodoBearers, t \in 1..MaxTodos : DeleteTodo(a, t)
    \/ \E a \in TodoBearers, completed \in {"none", "true"} : ListTodos(a, 1, 1, completed)
    \/ \E data \in TodoUpdates : UpdateTodo(NoHeader, 1, data)
    \/ DeleteTodo(NoHeader, 1)
    \/ ListTodos(NoHeader, 1, 1, "none")

SpecOwn == Init /\ [][NextOwn]_vars

\* Accounts and their tokens: users are created, deactivated, reactivated and
\* deleted, log in, and present the token of the last login, while the
\* database clock advances (a token of login lasts 24 hours, longer than
\* any run).
NextActive ==
    \/ DbTick
    \/ \E data \in UserCreates, salt \in Salts : CreateUser(data, salt)
    \/ \E i \in 1..MaxUsers, b \in BOOLEAN : UpdateUser(i, [is_active |-> b])
    \/ \E i \in 1..MaxUsers : DeleteUser(i)
    \/ \E data \in LoginRequests : Login(data)
    \/ \E db_up \in BOOLEAN : issued.present /\ AuthMe(Bearer(issued.token), db_up)

SpecActive == Init /\ [][NextActive]_vars

\* From registration to /auth/me: users register or are created, change their
\* email, are deactivated, reactivated and deleted, log in with either name
\* and either password, and present the token of the last login.
JourneyUpdates == { [is_active |-> FALSE], [is_active |-> TRUE], [email |-> "ann2@x.io"] }
JourneyLogins ==
    [username : {"ann", "ann@x.io", "ann2@x.io", "bob"}, password : {PasswordOfAnn, PasswordOfBob}]

NextJourney ==
    \/ \E data \in UserCreates, salt \in Salts : Register(data, salt)
    \/ \E data \in UserCreates, salt \in Salts : CreateUser(data, salt)
    \/ \E i \in 1..MaxUsers, data \in JourneyUpdates : UpdateUser(i, data)
    \/ \E i \in 1..MaxUsers : DeleteUser(i)
    \/ \E data \in JourneyLogins : Login(data)
    \/ issued.present /\ AuthMe(Bearer(issued.token), TRUE)

SpecJourney == Init /\ [][NextJourney]_vars

\* Login: users register, are deactivated, log in with right and wrong
\* passwords, and stored hashes are verified and may be damaged.
NextLogin ==
    \/ \E data \in UserCreates, salt \in Salts : CreateUser(data, salt)
    \/ \E i \in 1..MaxUsers, b \in BOOLEAN : UpdateUser(i, [is_active |-> b])
    \/ \E i \in 1..MaxUsers, h \in MalformedHashes : CorruptStoredHash(i, h)
    \/ \E data \in LoginRequests : Login(data)
    \/ \E pw \in {PasswordOfAnn, PasswordOfBob},
          h \in MalformedHashes \cup {users[i].hashed_password : i \in DOMAIN users} :
            Verify(pw, h)

SpecLogin == Init /\ [][NextLogin]_vars

\* The life of one token: it is issued for user 1 and decoded again and again
\* while the clock advances and users are created, deactivated and deleted.
NextLife ==
    \/ Tick
    \/ \E d \in ExpiresDeltas : IssueToken(PyStr(1), d)
    \/ VerifyIssued
    \/ \E data \in UserCreates, salt \in Salts : CreateUser(data, salt)
    \/ \E i \in 1..MaxUsers, data \in UserUpdates : UpdateUser(i, data)
    \/ \E i \in 1..MaxUsers : DeleteUser(i)

SpecLife == Init /\ [][NextLife]_vars

----------------------------------------------------------------------------
(* Vocabulary of the claims, stated on the request and the state alone *)

\* The last operation was a request to a protected route with a well-formed
\* bearer credential / a call of decode_token.
BearerRequest == response.op = "auth" /\ response.authorization.kind = "bearer"
DecodeCall == response.op = "decode_token"

\* The Token Manager can be constructed: both key files are there and the
\* passphrase decrypts the private key.
ManagerLoads ==
    /\ keyfiles.private \in KeyPairs
    /\ keyfiles.public \in KeyPairs
    /\ "right" = (IF keyfiles.password = "none" THEN keyfiles.env ELSE keyfiles.password)

\* The token's signature verifies / does not verify against the Token
\* Manager's public key.
SignatureVerifies(t) == ManagerLoads /\ t.wf /\ t.key = keyfiles.public
SignatureFails(t) == ManagerLoads /\ ~(t.wf /\ t.key = keyfiles.public)

\* The clock is before / at or past the token's embedded expiry.
Unexpired(t) == now < t.payload.exp * TicksPerSecond
Expired(t) == ~Unexpired(t)

HasSub(t) == "sub" \in DOMAIN t.payload

\* The rows whose id, written in decimal, is the token's sub.
RowsOfSub(t) == { i \in DOMAIN users : PyStr(users[i].id) = t.payload.sub }

\* The kinds of decode failure: TokenExpired, and TokenInvalid (every other
\* jwt.InvalidTokenError).
TokenExpired == {"ExpiredSignatureError"}
TokenInvalid == {"DecodeError", "InvalidSignatureError", "ImmatureSignatureError"}

----------------------------------------------------------------------------
(* C1: get_current_user returns a principal only for a token that verifies,
   is unexpired and carries a sub whose user exists and is active, and the
   principal is that user's row; in every other case in which the lookup does
   not fail the request fails Unauthenticated (401) and no principal is
   returned. *)
C1_GateReturnsOnlyVerifiedActiveUser ==
    BearerRequest =>
        LET t == response.authorization.token
            g == response.gate
            qualifies == /\ SignatureVerifies(t) /\ Unexpired(t) /\ HasSub(t)
                         /\ \E i \in RowsOfSub(t) : users[i].is_active
        IN  /\ g.user # <<>> =>
                /\ qualifies
                /\ \E i \in RowsOfSub(t) : g.user[1] = users[i]
                /\ response.status = 200
            /\ (~qualifies /\ g.lookup # "failed") =>
                /\ g.user = <<>>
                /\ g.raised = "UnauthorizedError"
                /\ response.status = 401

(* C2: decode_token accepts a token if and only if its signature verifies
   against the current public key and the clock is before its expiry,
   whatever the user store holds, whatever was requested before and whatever
   other token was issued. *)
C2_ValidIffSignedAndUnexpired ==
    DecodeCall =>
        ((response.raised = "") <=>
            (SignatureVerifies(response.token) /\ Unexpired(response.token)))

C2_Witness ==
    /\ DecodeCall
    /\ response.raised = ""
    /\ users # <<>>
    /\ issued.present
    /\ issued.token # response.token

\* The last operation decoded the token issued last, with a timedelta given.
DecodedIssued ==
    /\ DecodeCall
    /\ issued.present
    /\ response.token = issued.token
    /\ Len(issued.expires_delta) = 1

(* C3, as claimed: for every subject and every ttl t > 0, decoding the token
   right after its issuance succeeds and returns the subject as sub. *)
C3_RoundTripAnyPositiveTtl ==
    (DecodedIssued /\ issued.at = now /\ issued.expires_delta[1] > 0) =>
        /\ response.raised = ""
        /\ response.payload.sub = issued.subject

(* C3, amended: for every subject and every ttl of at least one second,
   decoding the token at the instant of its issuance succeeds and returns the
   subject as sub. *)
C3_RoundTripTtlOfASecond ==
    (DecodedIssued /\ issued.at = now /\ issued.expires_delta[1] >= TicksPerSecond) =>
        /\ response.raised = ""
        /\ response.payload.sub = issued.subject

C3_Witness ==
    /\ DecodedIssued
    /\ issued.at = now
    /\ issued.expires_delta[1] >= TicksPerSecond
    /\ response.raised = ""
    /\ response.payload.sub = <<"a">>

(* C4: for every subject and every ttl t, once the clock has advanced past t
   since the issuance, decoding the token fails with ExpiredSignatureError. *)
C4_ExpiredAfterTtl ==
    (DecodedIssued /\ now > issued.at + issued.expires_delta[1]) =>
        response.raised \in TokenExpired

(* C5: at the gate a token that is expired but whose signature verifies
   against the Token Manager's public key fails 401 with the reason "expired",
   every token whose signature does not verify against it fails 401 with the
   reason "invalid", and neither is reported as the other. *)
C5_ExpiredAndInvalidDistinct ==
    BearerRequest =>
        LET t == response.authorization.token
            g == response.gate
        IN  /\ (SignatureVerifies(t) /\ Expired(t)) =>
                /\ response.status = 401
                /\ response.body.message = "Token has expired"
                /\ g.logged = {"expired_token_attempt"}
            /\ SignatureFails(t) =>
                /\ response.status = 401
                /\ response.body.message = "Invalid authentication token"
                /\ g.logged = {"invalid_token_attempt"}

C5_Witness ==
    /\ BearerRequest
    /\ SignatureVerifies(response.authorization.token)
    /\ Expired(response.authorization.token)
    /\ response.body.message = "Token has expired"

\* The way a request failed authentication, from the request and the state.
FailureMode(r) ==
    LET t == r.authorization.token
    IN  IF SignatureFails(t) THEN "invalid"
        ELSE IF Expired(t) THEN "expired"
        ELSE IF ~HasSub(t) THEN "missing sub"
        ELSE IF RowsOfSub(t) = {} THEN "user not found"
        ELSE "inactive"

AuthenticationFailure(r) ==
    /\ r.op = "auth"
    /\ r.authorization.kind = "bearer"
    /\ r.gate.raised = "UnauthorizedError"

\* What the client sees of a response.
Outward(r) == [status |-> r.status, body |-> r.body]

(* C6: two requests that fail authentication for different reasons get the
   same outward response: nothing the client sees tells the failure modes
   apart. *)
C6_FailuresIndistinguishable ==
    [][ (/\ AuthenticationFailure(response)
         /\ AuthenticationFailure(response')
         /\ FailureMode(response) # FailureMode(response'))
        => Outward(response) = Outward(response') ]_vars

(* C7: a failed user lookup during authentication surfaces as a server error
   (5xx), never as 401 and never as "User not found"; an expired token with a
   valid signature surfaces as an authentication failure (401), never as a
   server error. *)
C7_LookupFailureIsServerError ==
    /\ (response.op = "auth" /\ response.gate.lookup = "failed") =>
            /\ response.status >= 500
            /\ response.body.type = "server_error"
            /\ response.body.message # "User not found"
            /\ response.gate.user = <<>>
    /\ (BearerRequest /\ SignatureVerifies(response.authorization.token)
                      /\ Expired(response.authorization.token)) =>
            /\ response.status = 401
            /\ response.body.type = "client_error"

C7_Witness ==
    /\ response.op = "auth"
    /\ response.gate.lookup = "failed"
    /\ response.status = 500
    /\ users # <<>>

(* C8: a request to a protected route without a well-formed bearer
   credential gets 401 with the structured error body, and neither the token
   verification nor the user lookup is performed. *)
C8_MissingCredentialIs401 ==
    (response.op = "auth" /\ response.authorization.kind # "bearer") =>
        /\ response.status = 401
        /\ response.body.shape = "error"
        /\ ~response.gate.decoded
        /\ response.gate.lookup = "none"

\* A correctly signed, unexpired token that carries no sub claim.
LacksSub(t) == SignatureVerifies(t) /\ Unexpired(t) /\ ~HasSub(t)

(* C9, as claimed: decode_token fails with TokenInvalid for a correctly
   signed, unexpired token without a sub claim, and never returns claims
   without a sub. *)
C9_DecodeRejectsMissingSub ==
    DecodeCall =>
        /\ LacksSub(response.token) => response.raised \in TokenInvalid
        /\ response.raised = "" => "sub" \in DOMAIN response.payload

(* C9, amended: decode_token returns the claims of a correctly signed,
   unexpired token without a sub claim as they are, without a sub; it is
   get_current_user that rejects such a token, with 401 "Invalid
   authentication token", before any user lookup. *)
C9_GateRejectsMissingSub ==
    /\ (DecodeCall /\ LacksSub(response.token)) =>
            /\ response.raised = ""
            /\ response.payload = response.token.payload
    /\ (BearerRequest /\ LacksSub(response.authorization.token)) =>
            /\ response.status = 401
            /\ response.body.message = "Invalid authentication token"
            /\ response.gate.user = <<>>
            /\ response.gate.lookup = "none"

C9_Witness ==
    /\ BearerRequest
    /\ LacksSub(response.authorization.token)
    /\ response.status = 401
    /\ users # <<>>

(* C11: a token's life is Unissued -> Active -> Expired and nothing else: an
   issued token is accepted whenever it is decoded before its expiry,
   whatever was done to the users in between; it is rejected as expired
   whenever it is decoded at or after its expiry; and once a decode found it
   expired, no decode accepts it again (every acceptance lies before the first
   expiry seen). *)
C11_TokenLifecycle ==
    (DecodeCall /\ issued.present /\ response.token = issued.token) =>
        /\ Unexpired(issued.token) => response.raised = ""
        /\ Expired(issued.token) => response.raised \in TokenExpired
        /\ issued.first_expired # -1 =>
            /\ response.raised \in TokenExpired
            /\ issued.last_ok < issued.first_expired

C11_Witness ==
    /\ DecodeCall
    /\ issued.present
    /\ response.token = issued.token
    /\ issued.last_ok >= 0
    /\ issued.first_expired > issued.last_ok
    /\ now > issued.first_expired
    /\ response.raised \in TokenExpired
    /\ nextId > 1
    /\ 1 \notin DOMAIN users

\* The JWTManager an operation constructed, NoManager when it constructed none.
ManagerBuilt(r) == IF "jwt_manager" \in DOMAIN r THEN r.jwt_manager ELSE NoManager

(* C12: the Token Manager is constructed at most once in the life of the
   process: once a Token Manager exists, no later operation reads the key
   files again, and every token issued later is signed with the key pair that
   was loaded first. *)
C12_ManagerConstructedOnce ==
    [][ firstManager # NoManager =>
            /\ ManagerBuilt(response') = NoManager
            /\ response'.op = "create_access_token" =>
                    response'.token.key = firstManager.private_key ]_vars

\* A key file of the deployment does not exist.
KeyFileMissing == keyfiles.private = "missing" \/ keyfiles.public = "missing"

(* C13: when a key file is missing, constructing the Token Manager fails with
   KeyNotFound (FileNotFoundError) and the server does not serve: the process
   handles no request at all. *)
C13_NoServingWithoutKeys ==
    KeyFileMissing =>
        /\ ManagerBuilt(response) # NoManager =>
                ManagerBuilt(response).error = "FileNotFoundError"
        /\ response.op = "none"

\* The three failures of key loading, as the exceptions JWTManager raises.
KeyNotFound(m) == m.error = "FileNotFoundError"
MissingPassphrase(m) ==
    /\ m.error = "ValueError"
    /\ m.message = "JWT_PRIVATE_KEY_PASSWORD environment variable is required"
KeyDecryptionFailed(m) ==
    m.error = "ValueError" /\ m.message = "Failed to decrypt private key"

\* The passphrase that applies: the one supplied directly, else the
\* environment's.
PassphraseOf(a) == IF a.password # "none" THEN a.password ELSE a.env

\* The last operation constructed a JWTManager from given arguments.
ManagerConstruction == response.op = "JWTManager"

(* C14, as claimed: key loading fails with KeyNotFound when a key file does
   not exist or is unreadable, with MissingPassphrase when no passphrase is
   supplied directly and the environment has none, with KeyDecryptionFailed
   when the passphrase is wrong or the data corrupt, and the key pair is
   produced only when none of the three occurs. *)
C14_UnreadableIsKeyNotFound ==
    ManagerConstruction =>
        LET a == response.args
            m == response.jwt_manager
            Gone(f) == f \in {"missing", "unreadable"}
            PrivateLoads == a.private \in KeyPairs /\ PassphraseOf(a) = "right"
        IN  /\ Gone(a.private) => KeyNotFound(m)
            /\ (~Gone(a.private) /\ PassphraseOf(a) = "none") => MissingPassphrase(m)
            /\ (~Gone(a.private) /\ PassphraseOf(a) # "none"
                    /\ (a.private = "corrupt" \/ PassphraseOf(a) = "wrong"))
                => KeyDecryptionFailed(m)
            /\ (PrivateLoads /\ Gone(a.public)) => KeyNotFound(m)
            /\ m.error = "" =>
                    /\ PrivateLoads /\ ~Gone(a.public)
                    /\ m.private_key = a.private /\ m.public_key = a.public

(* C14, amended: key loading fails with KeyNotFound when a key file does not
   exist; with MissingPassphrase when the private key file exists, no
   passphrase is supplied directly and the environment has none; with
   PermissionError, a fourth outcome, when a key file exists but the process
   may not read it; with KeyDecryptionFailed when the private key file is read and the
   passphrase is wrong or the data corrupt; the private key is loaded before
   the public key, and the key pair is produced exactly when none of the four
   occurs. *)
C14_KeyLoadingOutcomes ==
    ManagerConstruction =>
        LET a == response.args
            m == response.jwt_manager
            PrivateLoads == a.private \in KeyPairs /\ PassphraseOf(a) = "right"
        IN  /\ a.private = "missing" => KeyNotFound(m)
            /\ (a.private # "missing" /\ PassphraseOf(a) = "none") => MissingPassphrase(m)
            /\ (a.private = "unreadable" /\ PassphraseOf(a) # "none")
                => m.error = "PermissionError"
            /\ (a.private \in KeyPairs \cup {"corrupt"} /\ PassphraseOf(a) # "none"
                    /\ (a.private = "corrupt" \/ PassphraseOf(a) = "wrong"))
                => KeyDecryptionFailed(m)
            /\ (PrivateLoads /\ a.public = "missing") => KeyNotFound(m)
            /\ (PrivateLoads /\ a.public = "unreadable") => m.error = "PermissionError"
            /\ (m.error = "") <=> (PrivateLoads /\ a.public \notin {"missing", "unreadable"})
            /\ m.error = "" => m.private_key = a.private /\ m.public_key = a.public

C14_Witness ==
    /\ ManagerConstruction
    /\ response.args.private = "unreadable"
    /\ response.args.password = "none"
    /\ response.args.env = "right"
    /\ response.jwt_manager.error = "PermissionError"

(* C15: authentication writes no shared state: a request that only
   authenticates (GET /auth/me), whether it is accepted or refused, and a
   request to a protected route that the gate refuses, leave the users table,
   the todos table and the key files of the Token Manager as they were. *)
C15_AuthenticationWritesNothing ==
    [][ (\/ response'.op = "auth"
         \/ response'.op = "create_todo" /\ response'.gate.raised # "")
        => /\ users' = users /\ nextId' = nextId
           /\ todos' = todos /\ nextTodoId' = nextTodoId
           /\ keyfiles' = keyfiles ]_vars

C15_Witness ==
    /\ response.op = "auth"
    /\ response.status = 200
    /\ \E t \in DOMAIN todos : todos[t].user_id = response.gate.user[1].id
    /\ \E i \in DOMAIN users : ~users[i].is_active

\* The ttl that applies to the token issued last: the timedelta given, 15
\* minutes (900 seconds) when none was given; in ticks.
TtlOfIssued ==
    IF issued.expires_delta = NoDelta THEN 900 * TicksPerSecond ELSE issued.expires_delta[1]

(* C16: the token create_access_token(subject, ttl) returns carries sub =
   subject, iat = the time of issuance and exp = the time of issuance + ttl,
   as whole seconds, where ttl is 15 minutes when none is supplied; so exp -
   iat is the ttl that applies whenever that is a whole number of seconds. *)
C16_ClaimsOfIssuedToken ==
    issued.present =>
        LET claims == issued.token.payload
        IN  /\ claims.sub = issued.subject
            /\ claims.iat = issued.at \div TicksPerSecond
            /\ claims.exp = (issued.at + TtlOfIssued) \div TicksPerSecond
            /\ TtlOfIssued % TicksPerSecond = 0 =>
                    claims.exp - claims.iat = TtlOfIssued \div TicksPerSecond

\* The first 72 bytes of a password's UTF-8 encoding.
First72(str) ==
    LET bytes == Utf8Encode(str)
    IN  [i \in 1..(IF Len(bytes) < 72 THEN Len(bytes) ELSE 72) |-> bytes[i]]

\* The characters of a password that lie wholly within the first budget bytes
\* of its encoding.
RECURSIVE WholeChars(_, _)
WholeChars(str, budget) ==
    IF str = <<>> \/ Len(str[1]) > budget THEN <<>>
    ELSE <<str[1]>> \o WholeChars(Tail(str), budget - Len(str[1]))

\* The last operation was verify_password(p2, hash_password(p1)).
HashVerifyCall == response.op = "verify_password" /\ "hashed_from" \in DOMAIN response

(* C17, as claimed: verify_password(p2, hash_password(p1)) is true whenever
   p1 and p2 agree on their first 72 UTF-8 bytes and false when they differ
   within them. *)
C17_VerifyIffFirst72BytesAgree ==
    HashVerifyCall =>
        /\ response.raised = ""
        /\ response.value <=>
                (First72(response.hashed_from) = First72(response.plain_password))

(* C17, amended: verify_password(p2, hash_password(p1)) is true whenever p1
   and p2 agree on the characters that lie wholly within their first 72
   UTF-8 bytes (the bytes of a character that the limit cuts are dropped on
   both paths) - in particular for p2 = p1 of any length and for passwords
   that differ only after byte 72 - and false when they differ in those
   characters. *)
C17_VerifyIffWholeCharsAgree ==
    HashVerifyCall =>
        /\ response.raised = ""
        /\ response.value <=>
                (WholeChars(response.hashed_from, 72) = WholeChars(response.plain_password, 72))
        /\ First72(response.hashed_from) = First72(response.plain_password) => response.value
        /\ response.hashed_from = response.plain_password => response.value

C17_Witness ==
    /\ HashVerifyCall
    /\ response.value
    /\ response.hashed_from # response.plain_password
    /\ Len(Utf8Encode(response.hashed_from)) > 72
    /\ First72(response.hashed_from) = First72(response.plain_password)

\* The users that hold an email or a username.
HoldersOfEmail(e) == { i \in DOMAIN users : users[i].email = e }
HoldersOfUsername(u) == { i \in DOMAIN users : users[i].username = u }

\* A valid body of POST /users names an email or a username that a user holds.
CreateOfDuplicate(r) ==
    /\ r.op = "create_user"
    /\ ValidUserCreate(r.user_data)
    /\ HoldersOfEmail(r.user_data.email) \cup HoldersOfUsername(r.user_data.username) # {}

\* A body of PATCH /users/{user_id} for a user of the store names an email or
\* a username that another user holds.
UpdateToDuplicate(r) ==
    /\ r.op = "update_user"
    /\ r.user_id \in DOMAIN users
    /\ \/ /\ "email" \in DOMAIN r.update_data
          /\ HoldersOfEmail(r.update_data.email) \ {r.user_id} # {}
       \/ /\ "username" \in DOMAIN r.update_data
          /\ HoldersOfUsername(r.update_data.username) \ {r.user_id} # {}

(* C19: a create_user whose email or username a user of the store already has,
   and an update_user to an email or username that another user holds, are
   answered with 409, a client error, and leave the user store as it was. *)
C19_DuplicateIsConflict ==
    [][(CreateOfDuplicate(response') \/ UpdateToDuplicate(response')) =>
            /\ response'.status = 409
            /\ response'.body.type = "client_error"
            /\ users' = users]_vars

\* A create_user with the email of a stored user under a username nobody has
\* was refused.
C19_Witness ==
    /\ CreateOfDuplicate(response)
    /\ HoldersOfEmail(response.user_data.email) # {}
    /\ HoldersOfUsername(response.user_data.username) = {}
    /\ response.status = 409

\* The requests in flight or answered have valid bodies whose emails and
\* usernames are pairwise distinct (the store starts empty, so none of them is
\* in the store before the requests arrive).
PairwiseDistinctCreates ==
    /\ \A r \in DOMAIN reqs : ValidUserCreate(reqs[r].user_data)
    /\ \A r1, r2 \in DOMAIN reqs :
          r1 # r2 => /\ reqs[r1].user_data.email # reqs[r2].user_data.email
                     /\ reqs[r1].user_data.username # reqs[r2].user_data.username

\* The user that a request asked for is in the store.
Stored(r) ==
    \E i \in DOMAIN users : /\ users[i].email = reqs[r].user_data.email
                            /\ users[i].username = reqs[r].user_data.username

Answered == { r \in DOMAIN reqs : reqs[r].pc = "done" }

(* C20: concurrent create_user requests whose emails and usernames are
   pairwise distinct and not yet in the store are all answered 201, however
   their steps interleave, and every created user is then in the store: the
   store holds at least as many users as requests were answered. *)
C20_ConcurrentCreatesSucceed ==
    PairwiseDistinctCreates =>
        /\ \A r \in Answered : reqs[r].response.status = 201 /\ Stored(r)
        /\ Cardinality(DOMAIN users) >= Cardinality(Answered)

\* All requests were answered, with distinct data, and they overlapped: the
\* request that arrived second got the first id.
C20_Witness ==
    /\ PairwiseDistinctCreates
    /\ Len(reqs) >= 2
    /\ Answered = DOMAIN reqs
    /\ reqs[2].user_id = 1
    /\ reqs[1].user_id = 2

\* update_user on a user of the store leaves alone, apart from the fields in
\* exempt, every field of that user that the request does not name and every
\* field of every other user.
UpdateFrame(exempt) ==
    (response'.op = "update_user" /\ response'.user_id \in DOMAIN users) =>
        /\ DOMAIN users' = DOMAIN users
        /\ \A i \in DOMAIN users : \A f \in DOMAIN users[i] \ exempt :
              (i # response'.user_id \/ f \notin DOMAIN response'.update_data)
                  => users'[i][f] = users[i][f]

(* C21, as claimed: update_user changes exactly the fields supplied in the
   request: every field of that user not present in the request, and every
   field of every other user, has the same value after the update as before. *)
C21_UpdateChangesSuppliedFieldsOnly ==
    [][UpdateFrame({})]_vars

(* C21, amended: update_user changes the fields supplied in the request and
   updated_at, and nothing else: every other field of that user and every
   field of every other user keeps its value, a successful update gives each
   supplied field the supplied value, and updated_at changes only to the
   database clock and only when a supplied value differs from the stored
   one. *)
C21_UpdateChangesSuppliedFieldsAndStamp ==
    [][/\ UpdateFrame({"updated_at"})
       /\ (response'.op = "update_user" /\ response'.user_id \in DOMAIN users) =>
            LET old == users[response'.user_id]
                new == users'[response'.user_id]
                changing == \E f \in DOMAIN response'.update_data :
                                response'.update_data[f] # old[f]
            IN  /\ response'.status = 200 =>
                      \A f \in DOMAIN response'.update_data : new[f] = response'.update_data[f]
                /\ new.updated_at =
                      IF response'.status = 200 /\ changing THEN dbNow ELSE old.updated_at
                /\ \A i \in DOMAIN users \ {response'.user_id} :
                      users'[i].updated_at = users[i].updated_at]_vars

\* A successful update of two fields of one of two users, later than the
\* user's creation: the row's updated_at has moved on.
C21_Witness ==
    /\ response.op = "update_user"
    /\ response.status = 200
    /\ Cardinality(DOMAIN users) = 2
    /\ DOMAIN response.update_data = {"full_name", "is_active"}
    /\ users[response.user_id].full_name = "Updated Name"
    /\ users[response.user_id].updated_at > users[response.user_id].created_at

\* The id that a request to /users/{user_id} names; ids are the integers from
\* 1 (Path(ge=1)), and the request names an id that no user of the store has.
ByIdOps == {"get_user", "update_user", "delete_user"}
RequestedId(r) == IF "segment" \in DOMAIN r THEN r.segment ELSE <<r.user_id>>
NamesAbsentId(r) ==
    /\ r.op \in ByIdOps
    /\ RequestedId(r) # <<0>>
    /\ \A i \in DOMAIN users : RequestedId(r) # <<i>>

(* C22: after delete_user(id) has returned 204 the user is gone, and every
   later get_user(id) returns 404 until the end of the run; get_user,
   update_user and delete_user on an id that is not in the store return 404
   and change nothing. *)
C22_DeletedStaysGone ==
    [][/\ (response'.op = "delete_user" /\ response'.status = 204) =>
             response'.user_id \notin DOMAIN users'
       /\ \A i \in 1..(nextId - 1) : i \notin DOMAIN users => i \notin DOMAIN users'
       /\ NamesAbsentId(response') =>
             /\ response'.status = 404
             /\ users' = users
             /\ todos' = todos]_vars

\* The least and the greatest of two numbers.
Min(a, b) == IF a < b THEN a ELSE b
Max(a, b) == IF a < b THEN b ELSE a

\* A request to list users with a page from 1 and a page_size from 1 to 100.
ValidListRequest(r) ==
    /\ r.op = "list_users"
    /\ r.page # <<0>>
    /\ 1 <= r.page_size /\ r.page_size <= MaxPageSize

\* (page - 1) * page_size of a request; beyond 32 bits the product is beyond
\* every total, and the greatest 32-bit integer stands for it.
OffsetOf(r) ==
    IF FitsInt4(r.page) /\ DecimalValue(r.page) - 1 <= Int4Max \div r.page_size
    THEN (DecimalValue(r.page) - 1) * r.page_size
    ELSE Int4Max

(* C23: list_users(page, page_size) reports total = the number of users in
   the store whatever the page, returns
   min(page_size, max(0, total - (page - 1) * page_size)) users, echoes page
   and page_size, and never returns more than page_size users. *)
C23_ListUsersPagination ==
    ValidListRequest(response) =>
        /\ response.status = 200
        /\ response.body.total = Cardinality(DOMAIN users)
        /\ response.body.page = response.page
        /\ response.body.page_size = response.page_size
        /\ Cardinality(response.body.users) <= response.page_size
        /\ Cardinality(response.body.users) =
              Min(response.page_size,
                  Max(0, response.body.total - OffsetOf(response)))

\* The last operation was answered with an error status.
ErrorResponse(r) == "status" \in DOMAIN r /\ r.status >= 400

(* C24: every error response body carries error.status_code equal to the HTTP
   status of the response, and error.type is "client_error" exactly when
   400 <= status < 500 and "server_error" otherwise: 401, 404, 409 and 422
   responses are client errors, 500 responses are server errors. *)
C24_ErrorBodyMatchesStatus ==
    ErrorResponse(response) =>
        /\ response.body.shape = "error"
        /\ response.body.status_code = response.status
        /\ response.body.type = "client_error" <=>
                (400 <= response.status /\ response.status < 500)
        /\ response.body.type \in {"client_error", "server_error"}
        /\ response.status \in {401, 404, 409, 422} => response.body.type = "client_error"
        /\ response.status = 500 => response.body.type = "server_error"

\* The routes of /todos, and those that name a todo.
TodoOps == {"create_todo", "list_todos", "get_todo", "update_todo", "delete_todo"}
TodoByIdOps == {"get_todo", "update_todo", "delete_todo"}

\* The request was let through by the gate as the user caller.
CallerOf(r) == r.gate.user[1]
Authenticated(r) ==
    /\ r.authorization.kind = "bearer"
    /\ r.gate.raised = ""
    /\ r.gate.user # <<>>

(* C25: users can only read, change and delete their own todos. Every todo
   route answers a request only for an authenticated principal who is a
   stored, active user, and leaves the todos alone otherwise; get_todo,
   update_todo and delete_todo on a todo of another user fail with 403 and
   leave the todo as it is; list_todos returns only todos whose user_id is
   the caller's id; a created todo is owned by its creator; and no request
   changes or removes a todo of a user other than the caller. *)
C25_OwnTodosOnly ==
    [][response'.op \in TodoOps =>
        /\ response'.status < 400 =>
              /\ Authenticated(response')
              /\ CallerOf(response').id \in DOMAIN users
              /\ users[CallerOf(response').id].is_active
        /\ ~Authenticated(response') =>
              /\ response'.status \in {401, 403, 500}
              /\ todos' = todos
        /\ Authenticated(response') =>
              /\ \A t \in DOMAIN todos :
                    todos[t].user_id # CallerOf(response').id =>
                        t \in DOMAIN todos' /\ todos'[t] = todos[t]
              /\ \A t \in DOMAIN todos' \ DOMAIN todos :
                    /\ response'.op = "create_todo"
                    /\ todos'[t].user_id = CallerOf(response').id
                    /\ response'.body.todo = todos'[t]
              /\ (/\ response'.op \in TodoByIdOps
                  /\ response'.todo_id \in DOMAIN todos
                  /\ todos[response'.todo_id].user_id # CallerOf(response').id) =>
                        /\ response'.status = 403
                        /\ todos' = todos
              /\ (response'.op = "list_todos" /\ response'.status = 200) =>
                    \A todo \in response'.body.todos :
                        todo.user_id = CallerOf(response').id
              /\ (response'.op = "create_todo" /\ response'.status = 201) =>
                    response'.body.todo.user_id = CallerOf(response').id]_vars

\* A user was refused another user's todo, which is still there.
C25_Witness ==
    /\ response.op \in {"update_todo", "delete_todo"}
    /\ Authenticated(response)
    /\ response.status = 403
    /\ response.todo_id \in DOMAIN todos
    /\ todos[response.todo_id].user_id # CallerOf(response).id
    /\ \E t \in DOMAIN todos : todos[t].user_id = CallerOf(response).id

\* A stored string is a well-formed hash.
WellFormedHash(h) == h.scheme = "bcrypt"

\* A request presented the token issued last, and the gate's database lookup
\* did not fail.
PresentedIssued ==
    /\ response.op = "auth"
    /\ response.authorization.kind = "bearer"
    /\ issued.present
    /\ response.authorization.token = issued.token
    /\ response.gate.lookup # "failed"

(* C27: once a user is deactivated or deleted, every later request that
   presents a token issued to that user before the change fails authentication
   with 401, although the token is unexpired and correctly signed; once the
   user is reactivated the same token authenticates again, as that user. *)
C27_TokenFollowsAccount ==
    (PresentedIssued /\ Unexpired(issued.token)) =>
        LET id == PyInt(issued.subject)
        IN  IF id \in DOMAIN users /\ users[id].is_active
            THEN /\ response.status = 200
                 /\ response.body.user.id = id
            ELSE response.status = 401

\* The token authenticates for a user who was deactivated and reactivated
\* after the login: the row was rewritten after its creation and is active.
C27_Witness ==
    /\ PresentedIssued
    /\ response.status = 200
    /\ users[PyInt(issued.subject)].updated_at > users[PyInt(issued.subject)].created_at

(* C28: for every token that passes verification and carries a sub claim,
   whatever string the sub is, get_current_user ends either with a returned
   principal or with an Unauthenticated (401) failure, provided the database
   lookup does not fail: no value of sub leads to a server error. *)
C28_AnySubIsPrincipalOr401 ==
    (/\ BearerRequest
     /\ ManagerLoads
     /\ SignatureVerifies(response.authorization.token)
     /\ Unexpired(response.authorization.token)
     /\ HasSub(response.authorization.token)
     /\ response.gate.lookup # "failed") =>
        \/ /\ response.gate.user # <<>>
           /\ response.status = 200
        \/ /\ response.gate.raised = "UnauthorizedError"
           /\ response.status = 401

\* User i was registered or created with password p: the stored hash is the
\* hash of p (no request changes a password).
CreatedWith(i, p) ==
    /\ WellFormedHash(users[i].hashed_password)
    /\ users[i].hashed_password = HashPassword(p, users[i].hashed_password.salt)

\* The present, active users a login names by username or email with the
\* password they were created with.
OwnLogin(login_data) ==
    { i \in DOMAIN users :
        /\ users[i].username = login_data.username \/ users[i].email = login_data.username
        /\ CreatedWith(i, login_data.password)
        /\ users[i].is_active }

(* C29: after register or create_user succeeded for a user with password p, a
   login with that user's username or email and p succeeds, and the token it
   returns authenticates on /auth/me as that same user, for as long as the
   user stays present and active and the token is unexpired. *)
C29_RegisteredUserLogsIn ==
    /\ response.op = "login" =>
          \A i \in OwnLogin(response.login_data) :
              /\ response.status = 200
              /\ response.body.access_token.payload.sub = PyStr(i)
    /\ (PresentedIssued /\ Unexpired(issued.token)) =>
          \A i \in DOMAIN users :
              (PyStr(i) = issued.subject /\ users[i].is_active) =>
                  /\ response.status = 200
                  /\ response.body.user = users[i]

(* C30: in every reachable state no two users share an email and no two
   users share a username, under any sequence and any interleaving of
   concurrent register, create_user and update_user requests, each of which
   checks for a duplicate and then writes in separate steps. *)
C30_EmailsAndUsernamesUnique ==
    \A i, j \in DOMAIN users :
        i # j => /\ users[i].email # users[j].email
                 /\ users[i].username # users[j].username

\* Races happened: an update that passed its duplicate checks was refused at
\* the commit, and so was a registration or a creation.
RefusedAtCommit(r) ==
    /\ reqs[r].pc = "done"
    /\ "raised" \in DOMAIN reqs[r].response
    /\ reqs[r].response.raised = "IntegrityError"

C30_Witness ==
    /\ Cardinality(DOMAIN users) >= 2
    /\ \E r \in DOMAIN reqs : reqs[r].route = "update_user" /\ RefusedAtCommit(r)

\* The users whose username or email is the name a login supplies, and those
\* of them whose stored hash the supplied password verifies against.
NamedBy(name) == { i \in DOMAIN users : users[i].username = name \/ users[i].email = name }
VerifiedBy(login_data) ==
    { i \in NamedBy(login_data.username) :
        LET verified == VerifyPassword(login_data.password, users[i].hashed_password)
        IN  verified.raised = "" /\ verified.value }

\* The body of a refused login that tells nothing of the reason.
IncorrectLogin ==
    [shape |-> "error", status_code |-> 401, message |-> "Incorrect username or password",
     type |-> "client_error"]

(* C26: login issues a token only if a user whose username or email equals the
   supplied name exists, the supplied password verifies against that user's
   stored hash, and that user is active, and the token's subject is that
   user's id. In every other case login fails with 401 and issues no token,
   and an unknown user and a wrong password get the same response. *)
C26_LoginIssuesTokenOnlyToVerifiedActiveUser ==
    response.op = "login" =>
        LET eligible == { i \in VerifiedBy(response.login_data) : users[i].is_active }
        IN  /\ response.status = 200 =>
                  /\ eligible # {}
                  /\ \E i \in eligible : response.body.access_token.payload.sub = PyStr(i)
            /\ eligible = {} =>
                  /\ response.status = 401
                  /\ response.body.shape = "error"
            /\ VerifiedBy(response.login_data) = {} => response.body = IncorrectLogin

(* C18: verify_password does not throw on a malformed stored hash: for every
   password and every stored string that is no well-formed hash it returns
   false, and a login against a user whose stored hash is malformed ends as a
   failed verification, 401, not as a server error. *)
C18_VerifyNeverThrows ==
    /\ (response.op = "verify_password" /\ ~WellFormedHash(response.hashed_password)) =>
            /\ response.raised = ""
            /\ response.value = FALSE
    /\ (response.op = "login" /\ response.user # <<>>
            /\ ~WellFormedHash(response.user[1].hashed_password)) =>
            response.status = 401

(* C10: a token that the current key pair did not sign, be it signed with
   another key pair or no JWT at all, makes decode_token fail with
   TokenInvalid: it is never accepted and never fails in another way. *)
C10_ForeignOrMalformedIsInvalid ==
    (DecodeCall /\ SignatureFails(response.token)) =>
        response.raised \in TokenInvalid

C10_Witness ==
    /\ DecodeCall
    /\ response.token.wf
    /\ response.token.key # keyfiles.public
    /\ Expired(response.token)
    /\ response.raised = "InvalidSignatureError"

====
